---- MODULE Spec2Model ----
(***************************************************************************)
(* Clean Code Assistant: the analysis engine of src/src/extension.ts       *)
(* (readability, metrics, responsibilities, duplication, testability,      *)
(* side effects, dependency cycles) and the extension state around it      *)
(* (published diagnostics, violation map, notifications).                  *)
(*                                                                         *)
(* Text is a sequence of one-character strings; a unit is what the parser  *)
(* (ts-morph) hands to the engine: kind, name, source text and the         *)
(* statement trees of its body or methods.                                 *)
(***************************************************************************)
EXTENDS Integers, Sequences, FiniteSets, Bags, TLC

----------------------------------------------------------------------------
(* Characters and JavaScript string primitives                             *)

LowerSeq ==
    <<"a","b","c","d","e","f","g","h","i","j","k","l","m",
      "n","o","p","q","r","s","t","u","v","w","x","y","z">>

UpperSeq ==
    <<"A","B","C","D","E","F","G","H","I","J","K","L","M",
      "N","O","P","Q","R","S","T","U","V","W","X","Y","Z">>

LowerSet == {LowerSeq[i] : i \in DOMAIN LowerSeq}

UpperSet == {UpperSeq[i] : i \in DOMAIN UpperSeq}

DigitSet == {"0","1","2","3","4","5","6","7","8","9"}

\* \w of a JavaScript regular expression
IsWordChar(c) == c \in LowerSet \cup UpperSet \cup DigitSet \cup {"_"}

\* \s of a JavaScript regular expression (the characters the model uses)
IsSpace(c) == c \in {" ", "\t", "\n", "\r"}

\* String.prototype.toLowerCase, one character
ToLowerChar(c) ==
    IF c \in UpperSet
    THEN LowerSeq[CHOOSE i \in DOMAIN UpperSeq : UpperSeq[i] = c]
    ELSE c

\* String.prototype.toLowerCase
ToLowerCase(s) == [i \in DOMAIN s |-> ToLowerChar(s[i])]

\* whether word occurs in s at position p
MatchAt(s, p, word) ==
    /\ p + Len(word) - 1 <= Len(s)
    /\ \A k \in DOMAIN word : s[p + k - 1] = word[k]

\* String.prototype.includes
Includes(s, word) == \E p \in 1..(Len(s) + 1) : MatchAt(s, p, word)

\* the positions of c in s
Positions(s, c) == {i \in DOMAIN s : s[i] = c}

\* the k-th smallest element of a finite set of integers
KthSmallest(S, k) == CHOOSE x \in S : Cardinality({y \in S : y < x}) = k - 1

\* String.prototype.split with a one-character separator: '' gives ['']
Split(s, sep) ==
    LET seps == Positions(s, sep)
        n == Cardinality(seps)
        \* the separator before piece k (0 for the first piece) and after it
        Before(k) == IF k = 1 THEN 0 ELSE KthSmallest(seps, k - 1)
        After(k) == IF k = n + 1 THEN Len(s) + 1 ELSE KthSmallest(seps, k)
    IN  [k \in 1..(n + 1) |-> SubSeq(s, Before(k) + 1, After(k) - 1)]

\* index of the first non-whitespace character at or after p, Len(s)+1 if none
SkipSpace(s, p) ==
    IF p > Len(s) THEN Len(s) + 1
    ELSE CHOOSE q \in p..(Len(s) + 1) :
            /\ q = Len(s) + 1 \/ ~IsSpace(s[q])
            /\ \A r \in p..(q - 1) : IsSpace(s[r])

\* index of the last non-whitespace character at or before p, 0 if none
SkipSpaceBack(s, p) ==
    IF p < 1 THEN 0
    ELSE CHOOSE q \in 0..p :
            /\ q = 0 \/ ~IsSpace(s[q])
            /\ \A r \in (q + 1)..p : IsSpace(s[r])

\* String.prototype.trimStart
TrimStart(s) == SubSeq(s, SkipSpace(s, 1), Len(s))

\* String.prototype.trim
Trim(s) == SubSeq(s, SkipSpace(s, 1), SkipSpaceBack(s, Len(s)))

\* the sum of xs[lo..hi]
RECURSIVE SumRange(_, _, _)
SumRange(xs, lo, hi) ==
    IF lo > hi THEN 0
    ELSE IF lo = hi THEN xs[lo]
    ELSE LET mid == (lo + hi) \div 2
         IN  SumRange(xs, lo, mid) + SumRange(xs, mid + 1, hi)

\* Array.prototype.reduce((a, b) => a + b, 0)
SumSeq(xs) == SumRange(xs, 1, Len(xs))

\* the concatenation of xss[lo..hi]
RECURSIVE FlattenRange(_, _, _)
FlattenRange(xss, lo, hi) ==
    IF lo > hi THEN <<>>
    ELSE IF lo = hi THEN xss[lo]
    ELSE LET mid == (lo + hi) \div 2
         IN  FlattenRange(xss, lo, mid) \o FlattenRange(xss, mid + 1, hi)

\* concatenation of a sequence of sequences
Flatten(xss) == FlattenRange(xss, 1, Len(xss))

\* the elements of a sequence
Elems(xs) == {xs[i] : i \in DOMAIN xs}

\* Math.max
Max(a, b) == IF a >= b THEN a ELSE b

----------------------------------------------------------------------------
(* Units: what ts-morph gives the engine for a class or function           *)
(* declaration.  kind is "Class" or "Function"; name is <<>> when          *)
(* getName() is undefined; text is getText(); a Function has a body, a     *)
(* Class has methods, each with a body; a body may be absent (an overload  *)
(* or abstract declaration); a statement node has a syntax kind and its    *)
(* child statements.                                                       *)

\* Node.getDescendantsOfKind(kind).length over a list of statement nodes
RECURSIVE CountDescendantsOfKind(_, _)
CountDescendantsOfKind(nodes, kind) ==
    IF nodes = <<>> THEN 0
    ELSE (IF Head(nodes).kind = kind THEN 1 ELSE 0)
         + CountDescendantsOfKind(Head(nodes).kids, kind)
         + CountDescendantsOfKind(Tail(nodes), kind)

\* the three additions of computeMetrics, counting the statements directly
\* in the body only
BodyComplexityChildrenOnly(body) ==
    IF body.present
    THEN Cardinality({i \in DOMAIN body.stmts :
            body.stmts[i].kind \in {"IfStatement", "ForStatement", "WhileStatement"}})
    ELSE 0

\* the three additions computeMetrics makes for one body
BodyComplexity(body) ==
    IF body.present
    THEN CountDescendantsOfKind(body.stmts, "IfStatement")
         + CountDescendantsOfKind(body.stmts, "ForStatement")
         + CountDescendantsOfKind(body.stmts, "WhileStatement")
    ELSE 0

\* /^[a-zA-Z][a-zA-Z0-9]*$/.test(name)
NamePattern(name) ==
    /\ Len(name) >= 1
    /\ name[1] \in LowerSet \cup UpperSet
    /\ \A i \in 2..Len(name) : name[i] \in LowerSet \cup UpperSet \cup DigitSet

\* /^[a-z]/.test(name)
StartsLowercase(name) == Len(name) >= 1 /\ name[1] \in LowerSet

\* lines.map(line => line.length - line.trimStart().length)
IndentLevels(text) ==
    LET lines == Split(text, "\n")
    IN  [i \in DOMAIN lines |-> Len(lines[i]) - Len(TrimStart(lines[i]))]

\* evaluateReadability with the indentation band taken as exclusive
evaluateReadabilityExclusiveBand(unit) ==
    LET name == unit.name
        s1 == IF ~NamePattern(name) THEN 100 - 20 ELSE 100
        s2 == IF Len(name) < 3 THEN s1 - 10 ELSE s1
        s3 == IF StartsLowercase(name) THEN s2 - 20 ELSE s2
        indentLevels == IndentLevels(unit.text)
        total == SumSeq(indentLevels)
        n == Len(indentLevels)
        s4 == IF total <= 2 * n \/ total >= 4 * n THEN s3 - 15 ELSE s3
    IN  Max(0, s4)

\* evaluateReadability with the lowercase penalty charged only to names
\* that also fail the identifier pattern
evaluateReadabilityNestedPenalty(unit) ==
    LET name == unit.name
        s1 == IF ~NamePattern(name) THEN 100 - 20 ELSE 100
        s2 == IF Len(name) < 3 THEN s1 - 10 ELSE s1
        s3 == IF StartsLowercase(name) /\ ~NamePattern(name) THEN s2 - 20 ELSE s2
        indentLevels == IndentLevels(unit.text)
        total == SumSeq(indentLevels)
        n == Len(indentLevels)
        s4 == IF total < 2 * n \/ total > 4 * n THEN s3 - 15 ELSE s3
    IN  Max(0, s4)

evaluateReadability(unit) ==
    LET name == unit.name
        s0 == 100
        s1 == IF ~NamePattern(name) THEN s0 - 20 ELSE s0
        s2 == IF Len(name) < 3 THEN s1 - 10 ELSE s1
        s3 == IF StartsLowercase(name) THEN s2 - 20 ELSE s2
        indentLevels == IndentLevels(unit.text)
        total == SumSeq(indentLevels)
        n == Len(indentLevels)
        \* avgIndent = total / n; avgIndent < 2 || avgIndent > 4
        s4 == IF total < 2 * n \/ total > 4 * n THEN s3 - 15 ELSE s3
    IN  Max(0, s4)

computeMetrics(unit) ==
    LET lineCount == Len(Split(unit.text, "\n"))
    IN  IF unit.kind = "Class"
        THEN [lineCount |-> lineCount,
              methodCount |-> Len(unit.methods),
              complexity |-> 1 + SumSeq([i \in DOMAIN unit.methods |->
                                            BodyComplexity(unit.methods[i])])]
        ELSE [lineCount |-> lineCount,
              methodCount |-> 1,
              complexity |-> 1 + BodyComplexity(unit.body)]

keywords ==
    <<
       [resp |-> "data", words |-> <<
            <<"d","a","t","a">>,
            <<"d","a","t","a","b","a","s","e">>,
            <<"q","u","e","r","y">>,
            <<"s","a","v","e">>,
            <<"l","o","a","d">> >>],
       [resp |-> "ui", words |-> <<
            <<"u","i">>,
            <<"v","i","e","w">>,
            <<"r","e","n","d","e","r">>,
            <<"d","i","s","p","l","a","y">>,
            <<"b","u","t","t","o","n">> >>],
       [resp |-> "business", words |-> <<
            <<"b","u","s","i","n","e","s","s">>,
            <<"l","o","g","i","c">>,
            <<"c","a","l","c","u","l","a","t","e">>,
            <<"p","r","o","c","e","s","s">> >>],
       [resp |-> "validation", words |-> <<
            <<"v","a","l","i","d","a","t","e">>,
            <<"c","h","e","c","k">>,
            <<"e","r","r","o","r">>,
            <<"i","n","v","a","l","i","d">> >>],
       [resp |-> "communication", words |-> <<
            <<"e","m","a","i","l">>,
            <<"s","e","n","d">>,
            <<"h","t","t","p">>,
            <<"a","p","i">>,
            <<"n","e","t","w","o","r","k">> >>]
    >>

\* words.some(word => text.includes(word))
SomeWord(text, words) == \E i \in DOMAIN words : Includes(text, words[i])

\* identifyResponsibilities on the text as written
identifyResponsibilitiesCaseSensitive(unit) ==
    LET text == unit.text
        Matches(entry) == SomeWord(text, entry.words)
        hit == SelectSeq(keywords, Matches)
    IN  [i \in DOMAIN hit |-> hit[i].resp]

identifyResponsibilities(unit) ==
    LET text == ToLowerCase(unit.text)
        Matches(entry) == SomeWord(text, entry.words)
        hit == SelectSeq(keywords, Matches)
    IN  [i \in DOMAIN hit |-> hit[i].resp]

\* text.split('\n').map(l => l.trim()).filter(l => l.length > 0)
TrimmedLines(text) ==
    LET raw == Split(text, "\n")
        trimmed == [i \in DOMAIN raw |-> Trim(raw[i])]
        NonEmpty(l) == Len(l) > 0
    IN  SelectSeq(trimmed, NonEmpty)

\* hasDuplication with the comparison made inclusive
hasDuplicationInclusive(unit) ==
    LET lines == TrimmedLines(unit.text)
        uniqueLines == Elems(lines)
    IN  10 * Cardinality(uniqueLines) <= Len(lines) * 8

\* uniqueLines.size < lines.length * 0.8, in tenths
hasDuplication(unit) ==
    LET lines == TrimmedLines(unit.text)
        uniqueLines == Elems(lines)
    IN  10 * Cardinality(uniqueLines) < Len(lines) * 8

----------------------------------------------------------------------------
(* Regular-expression predicates of isTestable and hasSideEffects          *)

\* whether s has a \w character at position p
WordAt(s, p) == p >= 1 /\ p <= Len(s) /\ IsWordChar(s[p])

\* \b just before position p
Boundary(s, p) == WordAt(s, p - 1) # WordAt(s, p)

\* index just after the run of \w characters that starts at p
WordEnd(s, p) ==
    IF p > Len(s) THEN p
    ELSE CHOOSE q \in p..(Len(s) + 1) :
            /\ ~WordAt(s, q)
            /\ \A r \in p..(q - 1) : WordAt(s, r)

\* [A-Za-z_]
IsIdentStart(c) == c \in LowerSet \cup UpperSet \cup {"_"}

\* /\bword\b/.test(s)
WholeWord(s, word) ==
    \E p \in 1..Len(s) :
        /\ MatchAt(s, p, word)
        /\ Boundary(s, p)
        /\ Boundary(s, p + Len(word))

\* /\bnew\s+\w+/.test(s)
HasNew(s) ==
    \E p \in 1..Len(s) :
        /\ Boundary(s, p)
        /\ MatchAt(s, p, <<"n","e","w">>)
        /\ p + 3 <= Len(s)
        /\ IsSpace(s[p + 3])
        /\ WordAt(s, SkipSpace(s, p + 3))

\* /\bglobal\b|\bwindow\b|\bdocument\b/.test(s)
HasGlobals(s) ==
    \/ WholeWord(s, <<"g","l","o","b","a","l">>)
    \/ WholeWord(s, <<"w","i","n","d","o","w">>)
    \/ WholeWord(s, <<"d","o","c","u","m","e","n","t">>)

\* /\bconsole\.(log|error|warn)\b/.test(s)
HasConsole(s) ==
    \E p \in 1..Len(s) :
        /\ Boundary(s, p)
        /\ MatchAt(s, p, <<"c","o","n","s","o","l","e",".">>)
        /\ \E m \in {<<"l","o","g">>, <<"e","r","r","o","r">>, <<"w","a","r","n">>} :
              /\ MatchAt(s, p + 8, m)
              /\ Boundary(s, p + 8 + Len(m))

\* /(^|[^.])\b([A-Za-z_]\w*)\s*([+\-*/]?=)\s*/m.test(s)
BareAssignment(s) ==
    \E p \in 1..Len(s) :
        /\ IsIdentStart(s[p])
        /\ \/ p = 1
           \/ ~IsWordChar(s[p - 1]) /\ s[p - 1] # "."
        /\ LET q == SkipSpace(s, WordEnd(s, p))
           IN  /\ q <= Len(s)
               /\ \/ s[q] = "="
                  \/ /\ s[q] \in {"+", "-", "*", "/"}
                     /\ q + 1 <= Len(s)
                     /\ s[q + 1] = "="

\* /\bthis\.\w+\s*=/.test(s)
ModifiesThis(s) ==
    \E p \in 1..Len(s) :
        /\ Boundary(s, p)
        /\ MatchAt(s, p, <<"t","h","i","s",".">>)
        /\ WordAt(s, p + 5)
        /\ LET q == SkipSpace(s, WordEnd(s, p + 5))
           IN  q <= Len(s) /\ s[q] = "="

isTestable(unit) ==
    LET text == unit.text
        hasGlobals == HasGlobals(text)
        hasConsole == HasConsole(text)
        bareAssignment == BareAssignment(text)
    IN  ~HasNew(text) /\ ~hasGlobals /\ ~hasConsole /\ ~bareAssignment

hasSideEffects(unit) ==
    LET text == unit.text
        modifiesThis == ModifiesThis(text)
        consoleIo == HasConsole(text)
        bareAssignment == BareAssignment(text)
    IN  modifiesThis \/ consoleIo \/ bareAssignment

----------------------------------------------------------------------------
(* Cross-unit duplication: normalisation, edit distance, similarity        *)

\* whether an identifier token /\b[A-Za-z_]\w*\b/ starts at p
TokenStart(s, p) == Boundary(s, p) /\ IsIdentStart(s[p])

\* the start of the run of \w characters that holds position p
RunStart(s, p) ==
    CHOOSE r \in 1..p :
        /\ ~WordAt(s, r - 1)
        /\ \A q \in r..p : WordAt(s, q)

\* s.replace(/\b[A-Za-z_]\w*\b/g, 'id'): what each character turns into
ReplaceIdentifiers(s) ==
    Flatten([p \in DOMAIN s |->
        IF ~WordAt(s, p) THEN << s[p] >>
        ELSE IF TokenStart(s, p) THEN <<"i", "d">>
        ELSE IF TokenStart(s, RunStart(s, p)) THEN <<>>
        ELSE << s[p] >>])

\* s.replace(/\s+/g, ' '): what each character turns into
CollapseSpace(s) ==
    Flatten([p \in DOMAIN s |->
        IF ~IsSpace(s[p]) THEN << s[p] >>
        ELSE IF p = 1 \/ ~IsSpace(s[p - 1]) THEN <<" ">>
        ELSE <<>>])

normalizeForDuplication(s) == Trim(CollapseSpace(ReplaceIdentifiers(s)))

Min3(a, b, c) ==
    IF a <= b /\ a <= c THEN a ELSE IF b <= c THEN b ELSE c

\* dp[i][lo..hi] (columns counted from 0), built from row i-1 and from
\* left = dp[i][lo-1], in the order of the inner loop
RECURSIVE LevRow(_, _, _, _, _, _)
LevRow(prev, ai, b, lo, hi, left) ==
    IF lo > hi THEN <<>>
    ELSE IF lo = hi
    THEN << Min3(prev[lo + 1] + 1,
                 left + 1,
                 prev[lo] + (IF ai = b[lo] THEN 0 ELSE 1)) >>
    ELSE LET mid == (lo + hi) \div 2
             head == LevRow(prev, ai, b, lo, mid, left)
         IN  head \o LevRow(prev, ai, b, mid + 1, hi, head[Len(head)])

\* dp[hi] (held at indices 1..n+1), built from prev = dp[lo-1], in the order
\* of the outer loop
RECURSIVE LevRows(_, _, _, _, _)
LevRows(a, b, lo, hi, prev) ==
    IF lo > hi THEN prev
    ELSE IF lo = hi
    THEN << lo >> \o LevRow(prev, a[lo], b, 1, Len(b), lo)
    ELSE LET mid == (lo + hi) \div 2
             upper == LevRows(a, b, lo, mid, prev)
         IN  IF upper[1] = mid THEN LevRows(a, b, mid + 1, hi, upper) ELSE <<>>

levenshtein(a, b) ==
    LevRows(a, b, 1, Len(a), [j \in 1..(Len(b) + 1) |-> j - 1])[Len(b) + 1]

\* the length above which textSimilarity skips the comparison
SimilarityCap == 1000

\* textSimilarity dividing by the length of the first text
textSimilarityOverFirst(a, b) ==
    LET na == normalizeForDuplication(a)
        nb == normalizeForDuplication(b)
    IN  IF Len(na) > SimilarityCap \/ Len(nb) > SimilarityCap
        THEN [num |-> 0, den |-> 1]
        ELSE IF Len(na) = 0 /\ Len(nb) = 0
        THEN [num |-> 1, den |-> 1]
        ELSE LET dist == levenshtein(na, nb)
                 longest == Max(Len(na), 1)
             IN  [num |-> longest - dist, den |-> longest]

\* textSimilarity with the cap applied to the texts as given
textSimilarityCapOnRaw(a, b) ==
    LET na == normalizeForDuplication(a)
        nb == normalizeForDuplication(b)
    IN  IF Len(a) > SimilarityCap \/ Len(b) > SimilarityCap
        THEN [num |-> 0, den |-> 1]
        ELSE IF Len(na) = 0 /\ Len(nb) = 0
        THEN [num |-> 1, den |-> 1]
        ELSE LET dist == levenshtein(na, nb)
                 longest == Max(Len(na), Len(nb))
             IN  [num |-> longest - dist, den |-> longest]

\* the similarity as the fraction num/den
textSimilarity(a, b) ==
    LET na == normalizeForDuplication(a)
        nb == normalizeForDuplication(b)
    IN  IF Len(na) > SimilarityCap \/ Len(nb) > SimilarityCap
        THEN [num |-> 0, den |-> 1]
        ELSE IF Len(na) = 0 /\ Len(nb) = 0
        THEN [num |-> 1, den |-> 1]
        ELSE LET dist == levenshtein(na, nb)
                 longest == Max(Len(na), Len(nb))
             IN  [num |-> longest - dist, den |-> longest]

----------------------------------------------------------------------------
(* Dependency graph and cycle detection                                    *)

Anonymous == <<"a","n","o","n","y","m","o","u","s">>

\* unit.getName() || 'anonymous'
NameOrAnonymous(unit) == IF unit.name = <<>> THEN Anonymous ELSE unit.name

\* Map.prototype.set on a map held as a list of entries in insertion order
MapSet(graph, key, deps) ==
    IF \E i \in DOMAIN graph : graph[i].name = key
    THEN [i \in DOMAIN graph |->
             IF graph[i].name = key THEN [name |-> key, deps |-> deps]
             ELSE graph[i]]
    ELSE Append(graph, [name |-> key, deps |-> deps])

\* graph.get(node) || []
MapGet(graph, key) ==
    IF \E i \in DOMAIN graph : graph[i].name = key
    THEN graph[CHOOSE i \in DOMAIN graph : graph[i].name = key].deps
    ELSE <<>>

\* the deps list of one unit without the test otherName !== name
UnitDepsWithSelf(units, unit) ==
    LET text == unit.text
        Referenced(other) ==
            /\ other.name # <<>>
            /\ Includes(text, other.name)
        hit == SelectSeq(units, Referenced)
    IN  [i \in DOMAIN hit |-> hit[i].name]

\* the deps list of one unit
UnitDeps(units, unit) ==
    LET name == NameOrAnonymous(unit)
        text == unit.text
        Referenced(other) ==
            /\ other.name # <<>>
            /\ other.name # name
            /\ Includes(text, other.name)
        hit == SelectSeq(units, Referenced)
    IN  [i \in DOMAIN hit |-> hit[i].name]

RECURSIVE BuildGraphFrom(_, _, _)
BuildGraphFrom(units, k, graph) ==
    IF k > Len(units) THEN graph
    ELSE BuildGraphFrom(units, k + 1,
            MapSet(graph, NameOrAnonymous(units[k]), UnitDeps(units, units[k])))

buildDependencyGraph(units) == BuildGraphFrom(units, 1, <<>>)

\* Array.prototype.indexOf, 1-based; the node is on the path
IndexOf(path, node) == CHOOSE i \in DOMAIN path :
    path[i] = node /\ \A j \in 1..(i - 1) : path[j] # node

RECURSIVE dfs(_, _, _, _)
RECURSIVE dfsNeighbors(_, _, _, _, _)
\* dfs reporting the whole path instead of its slice from the node found again
dfsWholePath(graph, node, path, st) ==
    IF node \in st.recStack
    THEN [st EXCEPT !.cycles = Append(@, path)]
    ELSE IF node \in st.visited THEN st
    ELSE LET entered == [st EXCEPT !.visited = @ \cup {node},
                                   !.recStack = @ \cup {node}]
             after == dfsNeighbors(graph, MapGet(graph, node), 1,
                                   Append(path, node), entered)
         IN  [after EXCEPT !.recStack = @ \ {node}]

\* dfs without recStack.delete(node)
dfsKeepStack(graph, node, path, st) ==
    IF node \in st.recStack
    THEN [st EXCEPT !.cycles = Append(@, SubSeq(path, IndexOf(path, node), Len(path)))]
    ELSE IF node \in st.visited THEN st
    ELSE LET entered == [st EXCEPT !.visited = @ \cup {node},
                                   !.recStack = @ \cup {node}]
         IN  dfsNeighbors(graph, MapGet(graph, node), 1, Append(path, node), entered)

\* dfs with the reported cycle starting after the node found again
dfsSliceAfterStart(graph, node, path, st) ==
    IF node \in st.recStack
    THEN [st EXCEPT !.cycles = Append(@, SubSeq(path, IndexOf(path, node) + 1, Len(path)))]
    ELSE IF node \in st.visited THEN st
    ELSE LET entered == [st EXCEPT !.visited = @ \cup {node},
                                   !.recStack = @ \cup {node}]
             after == dfsNeighbors(graph, MapGet(graph, node), 1,
                                   Append(path, node), entered)
         IN  [after EXCEPT !.recStack = @ \ {node}]

\* dfs with the node found again repeated at the end of the reported cycle
dfsClosingLoop(graph, node, path, st) ==
    IF node \in st.recStack
    THEN [st EXCEPT !.cycles =
             Append(@, Append(SubSeq(path, IndexOf(path, node), Len(path)), node))]
    ELSE IF node \in st.visited THEN st
    ELSE LET entered == [st EXCEPT !.visited = @ \cup {node},
                                   !.recStack = @ \cup {node}]
             after == dfsNeighbors(graph, MapGet(graph, node), 1,
                                   Append(path, node), entered)
         IN  [after EXCEPT !.recStack = @ \ {node}]

\* the inner function dfs of detectCycles; st is cycles, visited, recStack
dfs(graph, node, path, st) ==
    IF node \in st.recStack
    THEN [st EXCEPT !.cycles = Append(@, SubSeq(path, IndexOf(path, node), Len(path)))]
    ELSE IF node \in st.visited THEN st
    ELSE LET entered == [st EXCEPT !.visited = @ \cup {node},
                                   !.recStack = @ \cup {node}]
             after == dfsNeighbors(graph, MapGet(graph, node), 1,
                                   Append(path, node), entered)
         IN  [after EXCEPT !.recStack = @ \ {node}]

dfsNeighbors(graph, neighbors, k, path, st) ==
    IF k > Len(neighbors) THEN st
    ELSE dfsNeighbors(graph, neighbors, k + 1, path,
                      dfs(graph, neighbors[k], path, st))

\* the loop over the keys with a visited set of its own for every key
RECURSIVE DetectFromEveryKey(_, _, _)
DetectFromEveryKey(graph, k, st) ==
    IF k > Len(graph) THEN st
    ELSE DetectFromEveryKey(graph, k + 1,
                            dfs(graph, graph[k].name, <<>>, [st EXCEPT !.visited = {}]))

\* for (const node of graph.keys()) if (!visited.has(node)) dfs(node, [])
RECURSIVE DetectFrom(_, _, _)
DetectFrom(graph, k, st) ==
    IF k > Len(graph) THEN st
    ELSE DetectFrom(graph, k + 1,
                    IF graph[k].name \in st.visited THEN st
                    ELSE dfs(graph, graph[k].name, <<>>, st))

detectCycles(graph) ==
    DetectFrom(graph, 1, [cycles |-> <<>>, visited |-> {}, recStack |-> {}]).cycles

----------------------------------------------------------------------------
(* Documents and diagnostics.  A document is its text and the list of the  *)
(* top-level declarations the parser finds in it, in document order, each  *)
(* with its offsets (getStart, getEnd).                                    *)

\* number of "\n" among the first offset characters of text
CountNewlines(text, offset) ==
    Cardinality({i \in 1..offset : text[i] = "\n"})

\* index of the last "\n" among the first offset characters, 0 if none
LastNewline(text, offset) ==
    LET found == {i \in 1..offset : text[i] = "\n"}
    IN  IF found = {} THEN 0
        ELSE CHOOSE i \in found : \A j \in found : j <= i

\* TextDocument.positionAt
positionAt(text, offset) ==
    [line |-> CountNewlines(text, offset),
     character |-> offset - LastNewline(text, offset)]

\* new vscode.Range(document.positionAt(unit.getStart()), document.positionAt(unit.getEnd()))
UnitRange(document, unit) ==
    [start |-> positionAt(document.text, unit.start),
     end |-> positionAt(document.text, unit.end)]

\* new vscode.Diagnostic(range, message, severity) with its code and source
Diagnostic(range, code, text, n, tags, names, severity) ==
    [range |-> range,
     message |-> [text |-> text, n |-> n, tags |-> tags, names |-> names],
     severity |-> severity,
     code |-> code,
     source |-> "clean-code-assistant"]

IsClass(unit) == unit.kind = "Class"

IsFunction(unit) == unit.kind = "Function"

\* sourceFile.getClasses()
getClasses(document) == SelectSeq(document.units, IsClass)

\* sourceFile.getFunctions()
getFunctions(document) == SelectSeq(document.units, IsFunction)

\* the units as they stand in the document
UnitListInDocumentOrder(document) == document.units

\* const units = [...classes, ...functions]
UnitList(document) == getClasses(document) \o getFunctions(document)

ReadabilityThreshold == 90

LineCountThreshold == 15

ComplexityThreshold == 8

MethodCountThreshold == 10

\* Step 2.1: if (readabilityScore < 90) diagnostics.push(...)
ReadabilityFinding(range, unit, severity) ==
    LET readabilityScore == evaluateReadability(unit)
    IN  IF readabilityScore < ReadabilityThreshold
        THEN << Diagnostic(range, "clean-code-assistant.readability",
                           "Poor readability", readabilityScore, <<>>, <<>>, severity) >>
        ELSE <<>>

\* Step 2.2: if (metrics.lineCount > 15) diagnostics.push(...)
SizeFinding(range, metrics, severity) ==
    IF metrics.lineCount > LineCountThreshold
    THEN << Diagnostic(range, "clean-code-assistant.size",
                       "Large function", metrics.lineCount, <<>>, <<>>, severity) >>
    ELSE <<>>

\* the complexity check chained to the size check with else
ComplexityFindingElse(range, metrics, severity) ==
    IF metrics.lineCount <= LineCountThreshold /\ metrics.complexity > ComplexityThreshold
    THEN << Diagnostic(range, "clean-code-assistant.complexity",
                       "High complexity", metrics.complexity, <<>>, <<>>, severity) >>
    ELSE <<>>

\* Step 2.2: if (metrics.complexity > 8) diagnostics.push(...)
ComplexityFinding(range, metrics, severity) ==
    IF metrics.complexity > ComplexityThreshold
    THEN << Diagnostic(range, "clean-code-assistant.complexity",
                       "High complexity", metrics.complexity, <<>>, <<>>, severity) >>
    ELSE <<>>

\* Step 2.2: if (unit instanceof ClassDeclaration && metrics.methodCount > 10) ...
GodClassFinding(range, unit, metrics, severity) ==
    IF IsClass(unit) /\ metrics.methodCount > MethodCountThreshold
    THEN << Diagnostic(range, "clean-code-assistant.god-class",
                       "God class", metrics.methodCount, <<>>, <<>>, severity) >>
    ELSE <<>>

\* Step 2.3: if (responsibilities.length > 1) diagnostics.push(...)
SrpFinding(range, unit, severity) ==
    LET responsibilities == identifyResponsibilities(unit)
    IN  IF Len(responsibilities) > 1
        THEN << Diagnostic(range, "clean-code-assistant.srp",
                           "SRP Violation", 0, responsibilities, <<>>, severity) >>
        ELSE <<>>

\* Step 2.4: if (hasDuplication(unit)) diagnostics.push(...)
DuplicationFinding(range, unit, severity) ==
    IF hasDuplication(unit)
    THEN << Diagnostic(range, "clean-code-assistant.duplication",
                       "Code duplication detected", 0, <<>>, <<>>, severity) >>
    ELSE <<>>

\* Step 2.4: if (!isTestable(unit)) diagnostics.push(...)
TestabilityFinding(range, unit, severity) ==
    IF ~isTestable(unit)
    THEN << Diagnostic(range, "clean-code-assistant.testability",
                       "Code not easily testable", 0, <<>>, <<>>, severity) >>
    ELSE <<>>

\* Step 2.4: if (hasSideEffects(unit)) diagnostics.push(...)
SideEffectsFinding(range, unit, severity) ==
    IF hasSideEffects(unit)
    THEN << Diagnostic(range, "clean-code-assistant.side-effects",
                       "Unexpected side effects", 0, <<>>, <<>>, severity) >>
    ELSE <<>>

\* the body of the loop over the units (Steps 2.1 to 2.4) for one unit
UnitDiagnostics(document, unit, severity) ==
    LET range == UnitRange(document, unit)
        metrics == computeMetrics(unit)
    IN  ReadabilityFinding(range, unit, severity)
        \o SizeFinding(range, metrics, severity)
        \o ComplexityFinding(range, metrics, severity)
        \o GodClassFinding(range, unit, metrics, severity)
        \o SrpFinding(range, unit, severity)
        \o DuplicationFinding(range, unit, severity)
        \o TestabilityFinding(range, unit, severity)
        \o SideEffectsFinding(range, unit, severity)

\* for (const unit of units) { ... }
AllUnitDiagnostics(document, units, severity) ==
    Flatten([i \in DOMAIN units |-> UnitDiagnostics(document, units[i], severity)])

\* Step 3: one diagnostic per cycle, ranged on the whole document
CycleDiagnostics(document, units, severity) ==
    LET cycles == detectCycles(buildDependencyGraph(units))
        cycleRange == [start |-> positionAt(document.text, 0),
                       end |-> positionAt(document.text, Len(document.text))]
    IN  [i \in DOMAIN cycles |->
            Diagnostic(cycleRange, "clean-code-assistant.dependency-cycle",
                       "Dependency cycle detected", 0, <<>>, cycles[i], severity)]

SimilarityThresholdTenths == 6

\* the body of the inner loop with the finding on the first function only
PairDiagnosticsOneSided(document, a, b, severity) ==
    LET sim == textSimilarity(a.text, b.text)
    IN  IF 10 * sim.num > SimilarityThresholdTenths * sim.den
        THEN << Diagnostic(UnitRange(document, a), "clean-code-assistant.duplication",
                           "Code duplication: Similar logic to function", 0, <<>>,
                           << NameOrAnonymous(b) >>, severity) >>
        ELSE <<>>

\* the body of the inner loop of the cross-unit duplication detection
PairDiagnostics(document, a, b, severity) ==
    LET sim == textSimilarity(a.text, b.text)
    IN  IF 10 * sim.num > SimilarityThresholdTenths * sim.den
        THEN << Diagnostic(UnitRange(document, a), "clean-code-assistant.duplication",
                           "Code duplication: Similar logic to function", 0, <<>>,
                           << NameOrAnonymous(b) >>, severity),
                Diagnostic(UnitRange(document, b), "clean-code-assistant.duplication",
                           "Code duplication: Similar logic to function", 0, <<>>,
                           << NameOrAnonymous(a) >>, severity) >>
        ELSE <<>>

\* for (i ...) for (j = i + 1 ...) over functionsOnly
RECURSIVE CrossDuplicationFrom(_, _, _, _, _)
CrossDuplicationFrom(document, functionsOnly, i, j, severity) ==
    IF i > Len(functionsOnly) THEN <<>>
    ELSE IF j > Len(functionsOnly)
         THEN CrossDuplicationFrom(document, functionsOnly, i + 1, i + 2, severity)
         ELSE PairDiagnostics(document, functionsOnly[i], functionsOnly[j], severity)
              \o CrossDuplicationFrom(document, functionsOnly, i, j + 1, severity)

CrossDuplicationDiagnostics(document, severity) ==
    CrossDuplicationFrom(document, getFunctions(document), 1, 2, severity)

\* the try block with the comparison of the functions before the cycles
StaticDiagnosticsCrossFirst(document, severity) ==
    LET units == UnitList(document)
    IN  AllUnitDiagnostics(document, units, severity)
        \o CrossDuplicationDiagnostics(document, severity)
        \o CycleDiagnostics(document, units, severity)

\* the diagnostics list at the end of the try block of analyzeDocument
StaticDiagnostics(document, severity) ==
    LET units == UnitList(document)
    IN  AllUnitDiagnostics(document, units, severity)
        \o CycleDiagnostics(document, units, severity)
        \o CrossDuplicationDiagnostics(document, severity)

----------------------------------------------------------------------------
(* Building units and documents                                            *)

NoBody == [present |-> FALSE, stmts |-> <<>>]

Block(stmts) == [present |-> TRUE, stmts |-> stmts]

Stmt(kind, kids) == [kind |-> kind, kids |-> kids]

FunctionUnit(name, text, body) ==
    [kind |-> "Function", name |-> name, text |-> text,
     methods |-> <<>>, body |-> body]

ClassUnit(name, text, methods) ==
    [kind |-> "Class", name |-> name, text |-> text,
     methods |-> methods, body |-> NoBody]

\* Array.prototype.join
Join(parts, sep) ==
    Flatten([i \in 1..(2 * Len(parts) - 1) |->
                IF i % 2 = 1 THEN parts[(i + 1) \div 2] ELSE sep])

\* n copies of x
Repeat(x, n) == [i \in 1..n |-> x]

\* the document whose text is the given declarations, one after the other,
\* each starting on a new line; start and end are getStart() and getEnd()
RECURSIVE PlaceUnits(_, _)
PlaceUnits(decls, offset) ==
    IF decls = <<>> THEN <<>>
    ELSE LET d == Head(decls)
         IN  << [kind |-> d.kind, name |-> d.name, text |-> d.text,
                 methods |-> d.methods, body |-> d.body,
                 start |-> offset, end |-> offset + Len(d.text)] >>
             \o PlaceUnits(Tail(decls), offset + Len(d.text) + 1)

MakeDocument(decls) ==
    [text |-> Join([i \in DOMAIN decls |-> decls[i].text], <<"\n">>),
     units |-> PlaceUnits(decls, 0)]

UserServiceText ==
    <<"c","l","a","s","s"," ","U","s","e","r","S","e","r","v","i","c","e"," ","{","\n","\t","c",
      "r","e","a","t","e","U","s","e","r","(","d","a","t","a",":"," ","a","n","y",")"," ","{",
      "\n","\t","\t","t","h","i","s",".","u","s","e","r","R","e","p","o",".","s","a","v","e",
      "(","d","a","t","a",")",";","\n","\t","}","\n","\n","\t","s","e","n","d","W","e","l","c",
      "o","m","e","E","m","a","i","l","(","e","m","a","i","l",":"," ","s","t","r","i","n","g",
      ")"," ","{","\n","\t","\t","t","h","i","s",".","e","m","a","i","l","S","e","r","v","i",
      "c","e",".","s","e","n","d","W","e","l","c","o","m","e","E","m","a","i","l","(","e","m",
      "a","i","l",")",";","\n","\t","}","\n","}">>

----------------------------------------------------------------------------
(* State                                                                   *)

VARIABLES
    input,      \* the document handed to one analysis pass of the engine
    pc,         \* "ready" before that pass, "done" after it
    result,     \* what the pass produced
    content,             \* uri -> the document's content, as its place in the catalog
    settings,            \* the workspace configuration of the extension
    srpDiagnostics,      \* uri -> the published diagnostics
    violationMap,        \* uri -> the violations of the document
    notifiedViolations,  \* uri -> the violation keys the user has answered
    notifications,       \* the notifications on screen, waiting for an answer
    inflight,            \* the passes waiting for the answer of the LLM
    analysisTimeout,     \* the handle of the debounce timer
    lastAnalyzedUnit,    \* the unit the timer analysed last
    lastCursorPosition,  \* the cursor position the selection handler saw last
    events,              \* how many events the extension has handled
    shown,               \* uri -> the keys notified once, and those notified again
    passes               \* uri -> the last two completed passes of analyzeDocument

engine == << input, pc, result >>

extension ==
    << content, settings, srpDiagnostics, violationMap, notifiedViolations, notifications,
       inflight, analysisTimeout, lastAnalyzedUnit, lastCursorPosition, events, shown,
       passes >>

vars ==
    << input, pc, result, content, settings, srpDiagnostics, violationMap,
       notifiedViolations, notifications, inflight, analysisTimeout, lastAnalyzedUnit,
       lastCursorPosition, events, shown, passes >>

\* the extension is not activated while the engine is run on its own
NotActivated ==
    /\ content = <<>>
    /\ settings = <<>>
    /\ srpDiagnostics = <<>>
    /\ violationMap = <<>>
    /\ notifiedViolations = <<>>
    /\ notifications = <<>>
    /\ inflight = <<>>
    /\ analysisTimeout = <<>>
    /\ lastAnalyzedUnit = <<>>
    /\ lastCursorPosition = <<>>
    /\ events = 0
    /\ shown = <<>>
    /\ passes = <<>>

NoResult ==
    [diagnostics |-> <<>>, units |-> <<>>, readability |-> <<>>,
     metrics |-> <<>>, responsibilities |-> <<>>]

\* one pass of the engine over the input document: the try block of
\* analyzeDocument, with what the helpers returned for each unit
AnalyzeInput ==
    /\ pc = "ready"
    /\ LET units == UnitList(input)
       IN  result' =
             [diagnostics |-> StaticDiagnostics(input, "Warning"),
              units |-> units,
              readability |-> [i \in DOMAIN units |-> evaluateReadability(units[i])],
              metrics |-> [i \in DOMAIN units |-> computeMetrics(units[i])],
              responsibilities |->
                  [i \in DOMAIN units |-> identifyResponsibilities(units[i])]]
    /\ pc' = "done"
    /\ UNCHANGED << input, extension >>

NextEngine == AnalyzeInput

\* the diagnostics of the pass that carry the given code and lie on the unit
DiagnosticsOf(unit, code) ==
    LET Mine(d) == d.code = code /\ d.range = UnitRange(input, unit)
    IN  SelectSeq(result.diagnostics, Mine)

\* the per-unit diagnostics (not the cross-unit ones) of the given code
UnitFindings(unit, code) ==
    LET Mine(d) == d.message.text # "Code duplication: Similar logic to function"
    IN  SelectSeq(DiagnosticsOf(unit, code), Mine)

Emitted(unit, code) == Len(UnitFindings(unit, code)) > 0

----------------------------------------------------------------------------
(* Readability: inputs                                                     *)

\* the longest run of leading spaces of an input line
MaxIndent == 6

\* the most lines of an input text
MaxLines == 3

NameSamples ==
    { <<>>,
      <<"a">>, <<"A">>, <<"_">>,
      <<"a","b">>, <<"A","b">>, <<"a","_">>, <<"$","a">>,
      <<"a","b","c">>, <<"A","b","c">>, <<"a","_","c">>, <<"A","_","c">>,
      <<"A","b","1">>, <<"a","b","1","2">>, <<"_","A","b","c">> }

Spaces(n) == Repeat(" ", n)

\* a text whose first line starts at the declaration (no indentation) and
\* whose other lines are indented as given
IndentedText(indents) ==
    Join(<< <<"x","{">> >> \o [i \in DOMAIN indents |-> Spaces(indents[i]) \o <<"x">>],
         <<"\n">>)

IndentLists == UNION {[1..n -> 0..MaxIndent] : n \in 0..(MaxLines - 1)}

ReadabilityTexts ==
    {IndentedText(ind) : ind \in IndentLists}
    \cup { <<"x","{","\n","\t","\t","x","\n","\t","\t","x","\n","}">>,
           <<"x","{","\n"," "," "," "," ","x","\n"," "," "," "," ","\n","\n"," "," "," "," "," "," ",
      "x">>,
           <<"x","{","\n","\t","\t","\t","\t","x","\n","\t","\t","\t","\t","\t","x","\n","\t","\t",
      "\t","\t","x","\n","\t","\t","\t","}">> }

ReadabilityUnits ==
    {FunctionUnit(name, text, Block(<<>>)) : name \in NameSamples, text \in ReadabilityTexts}
    \cup {ClassUnit(name, text, <<>>) : name \in NameSamples, text \in ReadabilityTexts}

InitReadability ==
    /\ \E unit \in ReadabilityUnits : input = MakeDocument(<< unit >>)
    /\ pc = "ready"
    /\ result = NoResult
    /\ NotActivated

SpecReadability == InitReadability /\ [][NextEngine]_vars

----------------------------------------------------------------------------
(* Readability: properties                                                 *)

\* the number of leading whitespace characters of a line
LeadingWidth(line) ==
    Cardinality({k \in 1..Len(line) : \A j \in 1..k : IsSpace(line[j])})

\* the average leading-whitespace width over all lines is outside [2,4]
IndentOutsideBand(text) ==
    LET lines == Split(text, "\n")
        total == SumSeq([i \in DOMAIN lines |-> LeadingWidth(lines[i])])
    IN  total < 2 * Len(lines) \/ total > 4 * Len(lines)

\* the sum of the penalties that apply to a unit
ReadabilityPenalties(unit) ==
    (IF unit.name = <<>> \/ ~NamePattern(unit.name) THEN 20 ELSE 0)
    + (IF Len(unit.name) < 3 THEN 10 ELSE 0)
    + (IF StartsLowercase(unit.name) THEN 20 ELSE 0)
    + (IF IndentOutsideBand(unit.text) THEN 15 ELSE 0)

\* C5: for every unit the readability score is 100 minus the applicable
\* penalties (20 name missing or not matching the pattern, 10 name shorter
\* than 3, 20 lowercase first letter, 15 average indentation outside [2,4]),
\* floored at 0; it lies in 0..100; and a readability finding is emitted
\* exactly when the score is below 90.
C5_ReadabilityScore ==
    pc = "done" =>
        \A i \in DOMAIN result.units :
            LET unit == result.units[i]
                score == result.readability[i]
            IN  /\ score = Max(0, 100 - ReadabilityPenalties(unit))
                /\ score \in 0..100
                /\ Emitted(unit, "clean-code-assistant.readability") <=> score < 90
                /\ \A k \in DOMAIN UnitFindings(unit, "clean-code-assistant.readability") :
                      UnitFindings(unit, "clean-code-assistant.readability")[k].message.n = score

\* a unit that takes all four penalties has been scored 35 and reported
C5_Witness ==
    /\ pc = "done"
    /\ \E i \in DOMAIN result.units :
          /\ ReadabilityPenalties(result.units[i]) = 65
          /\ result.readability[i] = 35
          /\ Emitted(result.units[i], "clean-code-assistant.readability")

\* a function named `a` whose average indentation is outside [2,4]
ScenarioTwoUnit(unit) ==
    /\ IsFunction(unit)
    /\ unit.name = <<"a">>
    /\ IndentOutsideBand(unit.text)

\* C6 as stated: a function named `a` with indentation outside the band takes
\* all four penalties, so its score is at most 35, and a readability finding
\* is emitted for it.
C6_ScenarioTwoAsStated ==
    pc = "done" =>
        \A i \in DOMAIN result.units :
            ScenarioTwoUnit(result.units[i]) =>
                /\ result.readability[i] <= 35
                /\ Emitted(result.units[i], "clean-code-assistant.readability")

\* C6 amended: a function named `a` with indentation outside the band takes
\* three penalties (short name, lowercase first letter, indentation) and not
\* the pattern penalty, since `a` matches the pattern: its score is
\* 100 - 10 - 20 - 15 = 55, and a readability finding is emitted for it.
C6_ScenarioTwo ==
    pc = "done" =>
        \A i \in DOMAIN result.units :
            ScenarioTwoUnit(result.units[i]) =>
                /\ NamePattern(result.units[i].name)
                /\ result.readability[i] = 100 - 10 - 20 - 15
                /\ Emitted(result.units[i], "clean-code-assistant.readability")

\* the function named `a` with bad indentation has been analysed
C6_Witness ==
    /\ pc = "done"
    /\ \E i \in DOMAIN result.units : ScenarioTwoUnit(result.units[i])

----------------------------------------------------------------------------
(* Metrics: inputs                                                         *)

\* the most statements of a generated flat or nested body
MaxStatements == 10

\* the most lines of a generated unit text
MaxTextLines == 17

\* the most methods of a generated class
MaxMethods == 12

\* the most top-level statements of an exhaustively generated body
MaxSiblings == 2

StatementKinds ==
    {"IfStatement", "ForStatement", "WhileStatement", "ExpressionStatement"}

\* n statements of one kind, side by side
FlatBody(kind, n) == Block(Repeat(Stmt(kind, <<>>), n))

\* n statements of one kind, each inside the one before
RECURSIVE NestedStmts(_, _)
NestedStmts(kind, n) ==
    IF n = 0 THEN <<>> ELSE << Stmt(kind, NestedStmts(kind, n - 1)) >>

NestedBody(kind, n) == Block(NestedStmts(kind, n))

\* a statement with at most one statement inside it
SmallNodes ==
    {Stmt(kind, <<>>) : kind \in StatementKinds}
    \cup {Stmt(kind, << Stmt(inner, <<>>) >>) :
              kind \in StatementKinds, inner \in StatementKinds}

SmallBodies ==
    {Block(stmts) : stmts \in UNION {[1..n -> SmallNodes] : n \in 0..MaxSiblings}}

UniformBodies ==
    {FlatBody(kind, n) : kind \in StatementKinds, n \in 0..MaxStatements}
    \cup {NestedBody(kind, n) : kind \in StatementKinds, n \in 0..MaxStatements}

\* a text of n lines
LinesText(n) == Join(Repeat(<<"x">>, n), <<"\n">>)

MetricName == <<"R","u","n">>

MethodBodies ==
    {NoBody, Block(<<>>), FlatBody("IfStatement", 1),
     NestedBody("WhileStatement", 2), FlatBody("ForStatement", 3)}

MetricUnits ==
    {FunctionUnit(MetricName, LinesText(1), body) : body \in SmallBodies \cup {NoBody}}
    \cup {FunctionUnit(MetricName, LinesText(n), body) :
              n \in 1..MaxTextLines, body \in UniformBodies}
    \cup {ClassUnit(MetricName, LinesText(n), Repeat(body, m)) :
              n \in {1, MaxTextLines}, m \in 0..MaxMethods, body \in MethodBodies}
    \cup {ClassUnit(MetricName, LinesText(1), << first, second >>) :
              first \in MethodBodies, second \in MethodBodies}

InitMetrics ==
    /\ \E unit \in MetricUnits : input = MakeDocument(<< unit >>)
    /\ pc = "ready"
    /\ result = NoResult
    /\ NotActivated

SpecMetrics == InitMetrics /\ [][NextEngine]_vars

----------------------------------------------------------------------------
(* Metrics: properties                                                     *)

\* the number of if, for and while statements among the given statements and
\* everything nested in them
RECURSIVE BranchStatements(_)
BranchStatements(stmts) ==
    SumSeq([i \in DOMAIN stmts |->
        (IF stmts[i].kind \in {"IfStatement", "ForStatement", "WhileStatement"}
         THEN 1 ELSE 0)
        + BranchStatements(stmts[i].kids)])

\* the bodies of a unit: of its methods for a class, its own for a function
BodiesOf(unit) == IF IsClass(unit) THEN unit.methods ELSE << unit.body >>

ExpectedComplexity(unit) ==
    1 + SumSeq([i \in DOMAIN BodiesOf(unit) |->
                   IF BodiesOf(unit)[i].present
                   THEN BranchStatements(BodiesOf(unit)[i].stmts)
                   ELSE 0])

\* C7: for every unit computeMetrics(unit).complexity is 1 plus the number of
\* if, for and while statements that are descendants of the unit's body (for
\* a class, summed over the bodies of all its methods), each counted once
\* whatever its nesting depth; so it is at least 1, also without body or
\* methods.
C7_Complexity ==
    pc = "done" =>
        \A i \in DOMAIN result.units :
            /\ result.metrics[i].complexity = ExpectedComplexity(result.units[i])
            /\ result.metrics[i].complexity >= 1

\* a function with an if, for or while statement nested in another one has
\* been measured
C7_Witness ==
    /\ pc = "done"
    /\ \E i \in DOMAIN result.units :
          LET unit == result.units[i]
          IN  /\ IsFunction(unit)
              /\ unit.body.present
              /\ \E k \in DOMAIN unit.body.stmts :
                    /\ unit.body.stmts[k].kind = "IfStatement"
                    /\ BranchStatements(unit.body.stmts[k].kids) >= 1
              /\ result.metrics[i].complexity >= 3

\* the number of lines of a text: one more than its newlines
LineCountOf(text) == Cardinality(Positions(text, "\n")) + 1

\* C8: for every unit a size finding is emitted iff lineCount > 15, a
\* complexity finding iff complexity > 8, and a god-class finding iff the
\* unit is a class with methodCount > 10 (reporting the method count); a
\* function has methodCount 1 and never gets one; the gates are independent.
C8_MetricGates ==
    pc = "done" =>
        \A i \in DOMAIN result.units :
            LET unit == result.units[i]
                metrics == result.metrics[i]
                god == UnitFindings(unit, "clean-code-assistant.god-class")
            IN  /\ metrics.lineCount = LineCountOf(unit.text)
                /\ metrics.methodCount = (IF IsClass(unit) THEN Len(unit.methods) ELSE 1)
                /\ Emitted(unit, "clean-code-assistant.size") <=> metrics.lineCount > 15
                /\ Emitted(unit, "clean-code-assistant.complexity")
                       <=> ExpectedComplexity(unit) > 8
                /\ Emitted(unit, "clean-code-assistant.god-class")
                       <=> (IsClass(unit) /\ Len(unit.methods) > 10)
                /\ \A k \in DOMAIN god : god[k].message.n = Len(unit.methods)

\* scenario 5: a function with 9 if statements on more than 15 lines has got
\* a complexity finding reporting 10 and a size finding in the same pass
C8_Witness ==
    /\ pc = "done"
    /\ \E i \in DOMAIN result.units :
          LET unit == result.units[i]
              complexity == UnitFindings(unit, "clean-code-assistant.complexity")
          IN  /\ IsFunction(unit)
              /\ unit.body = FlatBody("IfStatement", 9)
              /\ LineCountOf(unit.text) > 15
              /\ Len(complexity) = 1
              /\ complexity[1].message.n = 10
              /\ Emitted(unit, "clean-code-assistant.size")

----------------------------------------------------------------------------
(* Responsibilities: inputs                                                *)

\* the most words of an input text
MaxWords == 3

\* words that hit a keyword in another case or inside a longer word, and words
\* that hit none
SrpWords ==
    {<<"S","A","V","E">>,
     <<"B","u","i","l","d">>,
     <<"l","o","g","i","c">>,
     <<"C","h","e","c","k">>,
     <<"e","M","a","i","l">>,
     <<"f","o","o">>,
     <<"x">>,
     <<"V","i","e">>}

SrpTexts ==
    {Join(ws, <<" ">>) : ws \in UNION {[1..n -> SrpWords] : n \in 1..MaxWords}}

SrpName == <<"S","r","p">>

SrpUnits ==
    {FunctionUnit(SrpName, text, NoBody) : text \in SrpTexts}
    \cup {ClassUnit(SrpName, text, <<>>) : text \in SrpTexts}
    \cup {ClassUnit(<<"U","s","e","r","S","e","r","v","i","c","e">>, UserServiceText,
                    << Block(<< Stmt("ExpressionStatement", <<>>) >>),
                       Block(<< Stmt("ExpressionStatement", <<>>) >>) >>)}

InitSrp ==
    /\ \E unit \in SrpUnits : input = MakeDocument(<< unit >>)
    /\ pc = "ready"
    /\ result = NoResult
    /\ NotActivated

SpecSrp == InitSrp /\ [][NextEngine]_vars

----------------------------------------------------------------------------
(* Responsibilities: properties                                            *)

Taxonomy == << "data", "ui", "business", "validation", "communication" >>

\* the place of a tag in the taxonomy
TaxonomyIndex(tag) == CHOOSE i \in DOMAIN Taxonomy : Taxonomy[i] = tag

\* whether the (lower-case) keyword stands in the text at position p, the
\* case of the text's letters ignored
OccursIgnoringCase(text, p, word) ==
    /\ p + Len(word) - 1 <= Len(text)
    /\ \A k \in DOMAIN word : ToLowerChar(text[p + k - 1]) = word[k]

TagMatches(text, tag) ==
    \E i \in DOMAIN keywords :
        /\ keywords[i].resp = tag
        /\ \E k \in DOMAIN keywords[i].words, p \in DOMAIN text :
              OccursIgnoringCase(text, p, keywords[i].words[k])

\* C9: identifyResponsibilities returns exactly the tags of the taxonomy
\* (data, ui, business, validation, communication) of which a keyword occurs
\* in the unit text as a case-insensitive substring, in taxonomy order; an
\* SRP finding is emitted iff more than one tag matched, and it lists every
\* matched tag.
C9_Responsibilities ==
    pc = "done" =>
        \A i \in DOMAIN result.units :
            LET unit == result.units[i]
                tags == result.responsibilities[i]
                srp == UnitFindings(unit, "clean-code-assistant.srp")
            IN  /\ Elems(tags) = {tag \in Elems(Taxonomy) : TagMatches(unit.text, tag)}
                /\ \A a, b \in DOMAIN tags :
                      a < b => TaxonomyIndex(tags[a]) < TaxonomyIndex(tags[b])
                /\ Len(srp) = (IF Len(tags) > 1 THEN 1 ELSE 0)
                /\ \A k \in DOMAIN srp : srp[k].message.tags = tags

\* the UserService example has been analysed: its tags are data and
\* communication and the finding lists both
C9_Witness ==
    /\ pc = "done"
    /\ \E i \in DOMAIN result.units :
          LET unit == result.units[i]
              srp == UnitFindings(unit, "clean-code-assistant.srp")
          IN  /\ unit.text = UserServiceText
              /\ result.responsibilities[i] = << "data", "communication" >>
              /\ Len(srp) = 1
              /\ srp[1].message.tags = << "data", "communication" >>

----------------------------------------------------------------------------
(* Intra-unit duplication: inputs                                          *)

\* the most lines of an input text
MaxDupLines == 5

\* lines that differ, a line that differs from another only by the white
\* space around it, and a blank line
DupLines ==
    {<<"a">>, <<"b">>, <<"c">>, <<"d">>, <<" ","a","\t">>}

DupTexts ==
    {Join(ls, <<"\n">>) : ls \in UNION {[1..n -> DupLines] : n \in 1..MaxDupLines}}
    \cup {Join(<< <<"a">>, <<>>, l, <<" "," ">>, <<"b">> >>, <<"\n">>) : l \in DupLines}

DupName == <<"D","u","p">>

DupUnits == {FunctionUnit(DupName, text, NoBody) : text \in DupTexts}

InitDup ==
    /\ \E unit \in DupUnits : input = MakeDocument(<< unit >>)
    /\ pc = "ready"
    /\ result = NoResult
    /\ NotActivated

SpecDup == InitDup /\ [][NextEngine]_vars

----------------------------------------------------------------------------
(* Intra-unit duplication: properties                                      *)

\* whether the characters first..last of the text are one of its lines
IsLineOf(text, first, last) ==
    /\ first = 1 \/ text[first - 1] = "\n"
    /\ last = Len(text) \/ text[last + 1] = "\n"
    /\ \A p \in first..last : text[p] # "\n"

\* the part of first..last between its leading and trailing white space, or
\* << >> when it is all white space
Content(text, first, last) ==
    LET inked == {p \in first..last : ~IsSpace(text[p])}
    IN  IF inked = {} THEN <<>>
        ELSE LET from == CHOOSE p \in inked : \A q \in inked : p <= q
                 to == CHOOSE p \in inked : \A q \in inked : q <= p
             IN  SubSeq(text, from, to)

\* where the non-blank lines of the text start
LineStarts(text) ==
    {first \in DOMAIN text :
        \E last \in first..Len(text) :
            IsLineOf(text, first, last) /\ Content(text, first, last) # <<>>}

LineAt(text, first) ==
    Content(text, first, CHOOSE last \in first..Len(text) : IsLineOf(text, first, last))

\* C10: with L the trimmed non-empty lines of a unit and D the distinct
\* lines among them, an intra-unit duplication finding is emitted iff
\* |D| / |L| < 0.8, that is iff more than 20% of the lines repeat another
\* line; a unit with exactly 80% distinct lines is not flagged.
C10_IntraUnitDuplication ==
    pc = "done" =>
        \A i \in DOMAIN result.units :
            LET unit == result.units[i]
                L == Cardinality(LineStarts(unit.text))
                D == Cardinality({LineAt(unit.text, p) : p \in LineStarts(unit.text)})
            IN  /\ Emitted(unit, "clean-code-assistant.duplication") <=> 10 * D < 8 * L
                /\ Emitted(unit, "clean-code-assistant.duplication") <=> 5 * (L - D) > L
                /\ Len(UnitFindings(unit, "clean-code-assistant.duplication")) <= 1

\* a unit of five lines, four of them distinct, has been analysed and not
\* flagged
C10_Witness ==
    /\ pc = "done"
    /\ \E i \in DOMAIN result.units :
          LET unit == result.units[i]
          IN  /\ Cardinality(LineStarts(unit.text)) = 5
              /\ Cardinality({LineAt(unit.text, p) : p \in LineStarts(unit.text)}) = 4
              /\ ~Emitted(unit, "clean-code-assistant.duplication")

----------------------------------------------------------------------------
(* Order of the findings: inputs                                           *)

\* the most units of an input document
MaxUnits == 3

\* two functions that call each other and resemble each other
FooFunction ==
    FunctionUnit(<<"f","o","o">>,
    <<"f","u","n","c","t","i","o","n"," ","f","o","o","(",")"," ","{","\n"," "," ","b","a","r",
      "(",")",";","\n","}">>,
        Block(<< Stmt("ExpressionStatement", <<>>) >>))

BarFunction ==
    FunctionUnit(<<"b","a","r">>,
    <<"f","u","n","c","t","i","o","n"," ","b","a","r","(",")"," ","{","\n"," "," ","f","o","o",
      "(",")",";","\n","}">>,
        Block(<< Stmt("ExpressionStatement", <<>>) >>))

\* a function that assigns to a bare identifier and writes to the console
GoFunction ==
    FunctionUnit(<<"g","o">>,
    <<"f","u","n","c","t","i","o","n"," ","g","o","(",")"," ","{","\n"," "," ","t","o","t","a",
      "l"," ","="," ","t","o","t","a","l"," ","+"," ","1",";","\n"," "," ","c","o","n","s","o",
      "l","e",".","l","o","g","(","t","o","t","a","l",")",";","\n","}">>,
        Block(<< Stmt("ExpressionStatement", <<>>), Stmt("ExpressionStatement", <<>>) >>))

BigMethodLine ==
    <<" ","m","(",")"," ","{"," ","i","f"," ","(","x",")"," ","c","o","n","s","o","l","e",".",
      "l","o","g","(","s","a","v","e",","," ","e","m","a","i","l",")"," ","}">>

\* a class of 14 equal one-line methods: every per-unit rule applies to it
BigClass ==
    ClassUnit(<<"B","i","g">>,
        Join(<< <<"c","l","a","s","s"," ","B","i","g"," ","{">> >> \o Repeat(BigMethodLine, 14) \o << <<"}">> >>,
             <<"\n">>),
        Repeat(Block(<< Stmt("IfStatement", << Stmt("ExpressionStatement", <<>>) >>) >>), 14))

\* a class no rule applies to
TidyClass ==
    ClassUnit(<<"T","i","d","y">>,
    <<"c","l","a","s","s"," ","T","i","d","y"," ","{","\n"," "," "," "," "," "," ","r","u","n",
      "(",")"," ","{","}","\n","}">>,
        << Block(<<>>) >>)

OrderUnits == {FooFunction, BarFunction, GoFunction, BigClass, TidyClass}

\* the documents of up to MaxUnits different declarations
OrderDocuments ==
    {MakeDocument(decls) :
        decls \in {ds \in UNION {[1..n -> OrderUnits] : n \in 1..MaxUnits} :
                      \A i, j \in DOMAIN ds : i # j => ds[i] # ds[j]}}

InitOrder ==
    /\ input \in OrderDocuments
    /\ pc = "ready"
    /\ result = NoResult
    /\ NotActivated

SpecOrder == InitOrder /\ [][NextEngine]_vars

----------------------------------------------------------------------------
(* Order of the findings: properties                                       *)

UnitRuleOrder ==
    << "clean-code-assistant.readability", "clean-code-assistant.size",
       "clean-code-assistant.complexity", "clean-code-assistant.god-class",
       "clean-code-assistant.srp", "clean-code-assistant.duplication",
       "clean-code-assistant.testability", "clean-code-assistant.side-effects" >>

RuleIndex(code) == CHOOSE i \in DOMAIN UnitRuleOrder : UnitRuleOrder[i] = code

\* 1 for a finding about one unit, 2 for a dependency cycle, 3 for a
\* duplication across units
Phase(d) ==
    IF d.code = "clean-code-assistant.dependency-cycle" THEN 2
    ELSE IF d.message.text = "Code duplication: Similar logic to function" THEN 3
    ELSE 1

\* where the findings about the unit alone stand in the result list
FindingPositions(unit) ==
    {k \in DOMAIN result.diagnostics :
        /\ Phase(result.diagnostics[k]) = 1
        /\ result.diagnostics[k].range = UnitRange(input, unit)}

\* C3: in the list of one pass the findings of each unit are contiguous and
\* in the order readability, size, complexity, god-class, srp, intra-unit
\* duplication, testability, side-effects; every dependency-cycle finding
\* comes after all per-unit findings and every cross-unit duplication finding
\* after all dependency-cycle findings.
C3_FindingOrder ==
    pc = "done" =>
        LET ds == result.diagnostics
        IN  /\ \A j, k \in DOMAIN ds : j < k => Phase(ds[j]) <= Phase(ds[k])
            /\ \A i \in DOMAIN result.units :
                  LET at == FindingPositions(result.units[i])
                  IN  /\ \A j, k \in at : \A between \in j..k : between \in at
                      /\ \A j, k \in at :
                            j < k => RuleIndex(ds[j].code) < RuleIndex(ds[k].code)
            /\ \A k \in DOMAIN ds :
                  Phase(ds[k]) = 1 =>
                      \E i \in DOMAIN result.units : k \in FindingPositions(result.units[i])

\* a pass has produced all eight findings of one unit, findings of another
\* unit, a dependency cycle and a duplication across units
C3_Witness ==
    /\ pc = "done"
    /\ \E i, j \in DOMAIN result.units :
          /\ i # j
          /\ Cardinality(FindingPositions(result.units[i])) = 8
          /\ FindingPositions(result.units[j]) # {}
    /\ \E k \in DOMAIN result.diagnostics : Phase(result.diagnostics[k]) = 2
    /\ \E k \in DOMAIN result.diagnostics : Phase(result.diagnostics[k]) = 3

\* all findings of the first unit stand before all findings of the second
Precede(first, second) ==
    \A j \in FindingPositions(first), k \in FindingPositions(second) : j < k

\* C4 as stated: of any two units, whatever their kinds, the findings of the
\* one starting at the smaller offset precede the findings of the other.
C4_DocumentOrderAsStated ==
    pc = "done" =>
        \A i, j \in DOMAIN result.units :
            result.units[i].start < result.units[j].start
                => Precede(result.units[i], result.units[j])

\* C4: the findings of every class precede the findings of every function;
\* of two units of the same kind, the findings of the one starting at the
\* smaller offset precede the findings of the other.
C4_ClassesThenFunctions ==
    pc = "done" =>
        \A i, j \in DOMAIN result.units :
            LET first == result.units[i]
                second == result.units[j]
            IN  /\ (IsClass(first) /\ IsFunction(second)) => Precede(first, second)
                /\ (first.kind = second.kind /\ first.start < second.start)
                       => Precede(first, second)

\* a pass over a document in which a function with findings starts before a
\* class with findings, and a function before another function
C4_Witness ==
    /\ pc = "done"
    /\ \E i, j \in DOMAIN result.units :
          /\ IsFunction(result.units[i]) /\ IsClass(result.units[j])
          /\ result.units[i].start < result.units[j].start
          /\ FindingPositions(result.units[i]) # {}
          /\ FindingPositions(result.units[j]) # {}
          /\ Precede(result.units[j], result.units[i])
    /\ \E i, j \in DOMAIN result.units :
          /\ IsFunction(result.units[i]) /\ IsFunction(result.units[j])
          /\ result.units[i].start < result.units[j].start
          /\ FindingPositions(result.units[i]) # {}
          /\ FindingPositions(result.units[j]) # {}

----------------------------------------------------------------------------
(* The extension: documents, configuration, published state                *)

\* the most events the extension handles in one run
MaxEvents == 4

\* the most notifications on screen at a time
MaxOpen == 2

\* the most passes waiting for the LLM at a time
MaxInflight == 1

Uris == {"file:///a.ts"}

\* the contents a document takes as it is edited; all are TypeScript, and no
\* class in them has two methods with disjoint fields, so that the command
\* extractResponsibility finds nothing to move
Catalog ==
    << MakeDocument(<< TidyClass >>),
       MakeDocument(<< FooFunction >>),
       MakeDocument(<< TidyClass, FooFunction >>),
       MakeDocument(<< FooFunction, BarFunction >>) >>

\* the defaults of the config().get calls
DefaultSettings ==
    [enabled |-> TRUE, severity |-> "warning", showNotification |-> TRUE,
     enableGoToViolation |-> TRUE, llm |-> FALSE]

SettingNames == DOMAIN DefaultSettings

\* severitySetting === 'info' ? Information : Warning
SeverityOf(setting) == IF setting = "info" THEN "Information" ELSE "Warning"

\* the diagnostics list at line 336 for every content and severity
CatalogDiagnostics ==
    [i \in DOMAIN Catalog |->
        [severity \in {"Information", "Warning"} |-> StaticDiagnostics(Catalog[i], severity)]]

\* `${d.code}-${d.range.start.line}`
ViolationKey(d) == << d.code, d.range.start.line >>

\* one entry of vlist
Violation(uri, d) ==
    [id |-> << uri, d.range.start.line, d.code >>, message |-> d.message,
     range |-> d.range, severity |-> d.severity, source |-> d.source]

\* violationMap.set(uri, vlist), or violationMap.delete(uri) for an empty vlist
SetViolations(map, uri, vlist) == [map EXCEPT ![uri] = vlist]

\* srpDiagnostics.set(uri, diagnostics) with the list appended to the one in place
SetDiagnosticsAppending(collection, uri, diagnostics) ==
    [collection EXCEPT ![uri] = @ \o diagnostics]

\* srpDiagnostics.set(uri, diagnostics)
SetDiagnostics(collection, uri, diagnostics) ==
    [collection EXCEPT ![uri] = diagnostics]

\* the bag of the elements of a sequence
SeqToBag(xs) ==
    [x \in Elems(xs) |-> Cardinality({i \in DOMAIN xs : xs[i] = x})]

\* the notifications the loop over the diagnostics opens: one for every
\* diagnostic whose key is not in the set
OpenedNotifications(uri, diagnostics, origin) ==
    LET Fresh(d) == ViolationKey(d) \notin notifiedViolations[uri]
        fresh == SelectSeq(diagnostics, Fresh)
    IN  [i \in DOMAIN fresh |->
            [uri |-> uri, key |-> ViolationKey(fresh[i]),
             goTo |-> settings.enableGoToViolation, origin |-> origin,
             stage |-> "first"]]

\* the record of what has been shown, after these notifications came up
ShownAfter(opened) ==
    LET keysOf(uri) == {opened[i].key : i \in {j \in DOMAIN opened : opened[j].uri = uri}}
        Twice(uri, key) ==
            Cardinality({i \in DOMAIN opened :
                            opened[i].uri = uri /\ opened[i].key = key}) > 1
    IN  [uri \in Uris |->
            [once |-> shown[uri].once \cup keysOf(uri),
             again |-> shown[uri].again
                       \cup {key \in keysOf(uri) : key \in shown[uri].once \/ Twice(uri, key)},
             went |-> shown[uri].went]]

\* the notification block of analyzeDocument and of analyzeUnit
Notify(uri, diagnostics, origin) ==
    IF settings.showNotification
    THEN LET opened == OpenedNotifications(uri, diagnostics, origin)
         IN  /\ BagCardinality(notifications) + Len(opened) <= MaxOpen
             /\ notifications' = notifications (+) SeqToBag(opened)
             /\ shown' = ShownAfter(opened)
    ELSE UNCHANGED << notifications, shown >>

NoPass == [content |-> 0, severity |-> "", llm |-> FALSE, diagnostics |-> <<>>]

\* something happened to the document since its last pass
Disturbed(uri) == [passes EXCEPT ![uri].disturbed = TRUE]

\* the ranges of the units of a document
UnitRanges(document) ==
    {UnitRange(document, UnitList(document)[i]) : i \in DOMAIN UnitList(document)}

\* the ranges of the units of every content
CatalogUnitRanges == [i \in DOMAIN Catalog |-> UnitRanges(Catalog[i])]

\* an edit at the unit of this range, or outside every unit, gave the
\* document this content: the units edited and not analysed since, as far as
\* they are still units of the document
Edited(uri, i, unitRange) ==
    [Disturbed(uri) EXCEPT ![uri].edited =
        (@ \cap CatalogUnitRanges[i])
        \cup (IF unitRange.found THEN {unitRange.range} ELSE {})]

\* analyzeUnit was called for the lines of this range
Analyzed(log, uri, unitRange) ==
    [log EXCEPT ![uri].edited =
        {range \in @ : ~(/\ range.start.line = unitRange.start.line
                         /\ range.end.line = unitRange.end.line)}]

\* analyzeDocument from line 339 on: the violation map, the diagnostic
\* collection and the notifications
Publish(uri, finalDiagnostics, startContent, llm) ==
    /\ violationMap' =
           SetViolations(violationMap, uri,
               [i \in DOMAIN finalDiagnostics |-> Violation(uri, finalDiagnostics[i])])
    /\ srpDiagnostics' = SetDiagnostics(srpDiagnostics, uri, finalDiagnostics)
    /\ Notify(uri, finalDiagnostics, "document")
    /\ passes' =
           [passes EXCEPT ![uri] =
               [previous |-> @.last,
                last |-> [content |-> startContent,
                          severity |-> SeverityOf(settings.severity),
                          llm |-> llm,
                          diagnostics |-> srpDiagnostics'[uri]],
                between |-> @.disturbed,
                disturbed |-> FALSE,
                edited |-> {}]]
    /\ UNCHANGED notifiedViolations

\* the passes waiting for the LLM, after a pass on the document published:
\* those among the first n that are passes on this document started before it
Overtaken(uri, n) ==
    [i \in DOMAIN inflight |->
        IF i <= n /\ inflight[i].uri = uri
        THEN [inflight[i] EXCEPT !.overtaken = TRUE]
        ELSE inflight[i]]

\* analyzeDocument up to the await of analyzeWithLLM; without the LLM the
\* await resumes at once and the pass runs to its end
analyzeDocument(uri) ==
    IF ~settings.enabled
    THEN /\ srpDiagnostics' = [srpDiagnostics EXCEPT ![uri] = <<>>]
         /\ passes' = Disturbed(uri)
         /\ UNCHANGED << violationMap, notifiedViolations, notifications, inflight, shown >>
    ELSE LET diagnostics == CatalogDiagnostics[content[uri]][SeverityOf(settings.severity)]
         IN  IF settings.llm
             THEN /\ Len(inflight) < MaxInflight
                  /\ inflight' = Append(inflight,
                         [uri |-> uri, diagnostics |-> diagnostics, content |-> content[uri],
                          overtaken |-> FALSE])
                  /\ UNCHANGED << srpDiagnostics, violationMap, notifiedViolations,
                                  notifications, shown, passes >>
             ELSE /\ Publish(uri, diagnostics, content[uri], FALSE)
                  /\ inflight' = Overtaken(uri, Len(inflight))

----------------------------------------------------------------------------
(* The extension: the answer of the LLM                                    *)

Min(a, b) == IF a <= b THEN a ELSE b

\* what the request to the LLM comes to: it fails, it reports nothing, or it
\* reports one violation
LlmAnswers == {"error", "none", "one"}

LlmViolation == [type |-> "readability", severity |-> "high", line |-> 2]

\* `llm-${violation.type}`
LlmCode(type) ==
    CASE type = "readability" -> "llm-readability"
      [] type = "maintainability" -> "llm-maintainability"
      [] type = "performance" -> "llm-performance"
      [] type = "security" -> "llm-security"
      [] OTHER -> "llm-solid"

\* the diagnostic analyzeWithLLM makes of one violation
LlmDiagnostic(document, violation) ==
    LET lines == Split(document.text, "\n")
        line == Max(0, Min(violation.line - 1, Len(lines) - 1))
        severity == CASE violation.severity = "high" -> "Error"
                      [] violation.severity = "medium" -> "Warning"
                      [] violation.severity = "low" -> "Information"
                      [] OTHER -> "Warning"
    IN  [range |-> [start |-> [line |-> line, character |-> 0],
                    end |-> [line |-> line, character |-> Len(lines[line + 1])]],
         message |-> [text |-> "LLM Analysis", n |-> 0, tags |-> <<>>, names |-> <<>>],
         severity |-> severity,
         code |-> LlmCode(violation.type),
         source |-> "clean-code-assistant-llm"]

\* an element of the array the LLM answers with that is null: reading its
\* line raises
NullViolation == [present |-> FALSE, type |-> "", severity |-> "", line |-> 0]

\* an element that is an object
ViolationObject(type, severity, line) ==
    [present |-> TRUE, type |-> type, severity |-> severity, line |-> line]

\* the loop of analyzeWithLLM over the violations up to the first element
\* whose conversion raises: llmDiagnostics, and whether the loop completed
LlmDiagnosticsKeepingPartial(document, violations) ==
    LET bad == {i \in DOMAIN violations : ~violations[i].present}
        stop == IF bad = {} THEN Len(violations)
                ELSE (CHOOSE i \in bad : \A j \in bad : i <= j) - 1
    IN  [completed |-> TRUE,
         diagnostics |->
             SubSeq([i \in DOMAIN violations |-> LlmDiagnostic(document, violations[i])],
                    1, stop)]

LlmDiagnostics(document, violations) ==
    LET bad == {i \in DOMAIN violations : ~violations[i].present}
        stop == IF bad = {} THEN Len(violations)
                ELSE (CHOOSE i \in bad : \A j \in bad : i <= j) - 1
    IN  [completed |-> bad = {},
         diagnostics |->
             SubSeq([i \in DOMAIN violations |-> LlmDiagnostic(document, violations[i])],
                    1, stop)]

\* analyzeWithLLM for the settings and for what the request comes to: the
\* request fails, the content is not JSON, or it is an array of violations
LlmAugmented(document, existingDiagnostics, llmEnabled, apiKey, response) ==
    IF ~llmEnabled \/ apiKey = ""
    THEN existingDiagnostics
    ELSE IF response.failed \/ ~response.parses
    THEN existingDiagnostics
    ELSE LET converted == LlmDiagnostics(document, response.violations)
         IN  IF converted.completed
             THEN existingDiagnostics \o converted.diagnostics
             ELSE existingDiagnostics

\* what the request of a pass comes to, for each answer of the machine
AnswerResponse(answer) ==
    CASE answer = "error" -> [failed |-> TRUE, parses |-> FALSE, violations |-> <<>>]
      [] answer = "none" -> [failed |-> FALSE, parses |-> TRUE, violations |-> <<>>]
      [] OTHER -> [failed |-> FALSE, parses |-> TRUE,
                   violations |-> << ViolationObject(LlmViolation.type,
                                                     LlmViolation.severity,
                                                     LlmViolation.line) >>]

\* what analyzeWithLLM returns once the request has come back
analyzeWithLLM(document, existingDiagnostics, answer) ==
    LlmAugmented(document, existingDiagnostics, TRUE, "key", AnswerResponse(answer))

----------------------------------------------------------------------------
(* The extension: analysis of one unit                                     *)

Position(line, character) == [line |-> line, character |-> character]

PositionLE(a, b) == a.line < b.line \/ (a.line = b.line /\ a.character <= b.character)

\* Range.contains(position)
Contains(range, position) ==
    PositionLE(range.start, position) /\ PositionLE(position, range.end)

NoRange == [start |-> Position(0, 0), end |-> Position(0, 0)]

findUnitAtPosition(document, position) ==
    LET units == UnitList(document)
        hits == {i \in DOMAIN units : Contains(UnitRange(document, units[i]), position)}
    IN  IF hits = {} THEN [found |-> FALSE, range |-> NoRange]
        ELSE [found |-> TRUE,
              range |-> UnitRange(document, units[CHOOSE i \in hits : \A j \in hits : i <= j])]

\* the first unit that starts and ends on the lines of the range
TargetUnit(document, unitRange) ==
    LET units == UnitList(document)
        hits == {i \in DOMAIN units :
                    /\ UnitRange(document, units[i]).start.line = unitRange.start.line
                    /\ UnitRange(document, units[i]).end.line = unitRange.end.line}
    IN  IF hits = {} THEN [found |-> FALSE, unit |-> FunctionUnit(<<>>, <<>>, NoBody)]
        ELSE [found |-> TRUE, unit |-> units[CHOOSE i \in hits : \A j \in hits : i <= j]]

UnitType(unit) == IF IsClass(unit) THEN "class" ELSE "function"

\* the findings of analyzeUnit whose messages name the kind of the unit
SizeFindingOfUnit(range, unit, metrics, severity) ==
    IF metrics.lineCount > LineCountThreshold
    THEN << Diagnostic(range, "clean-code-assistant.size",
                       IF IsClass(unit) THEN "Large class" ELSE "Large function",
                       metrics.lineCount, <<>>, <<>>, severity) >>
    ELSE <<>>

ComplexityFindingOfUnit(range, unit, metrics, severity) ==
    IF metrics.complexity > ComplexityThreshold
    THEN << Diagnostic(range, "clean-code-assistant.complexity",
                       "High complexity", metrics.complexity, << UnitType(unit) >>, <<>>,
                       severity) >>
    ELSE <<>>

SrpFindingOfUnit(range, unit, severity) ==
    LET responsibilities == identifyResponsibilities(unit)
    IN  IF Len(responsibilities) > 1
        THEN << Diagnostic(range, "clean-code-assistant.srp", "SRP Violation", 0,
                           << UnitType(unit) >> \o responsibilities, <<>>, severity) >>
        ELSE <<>>

\* the try block of analyzeUnit for the target unit
TargetDiagnostics(document, unit, severity) ==
    LET range == UnitRange(document, unit)
        metrics == computeMetrics(unit)
    IN  ReadabilityFinding(range, unit, severity)
        \o SizeFindingOfUnit(range, unit, metrics, severity)
        \o ComplexityFindingOfUnit(range, unit, metrics, severity)
        \o GodClassFinding(range, unit, metrics, severity)
        \o SrpFindingOfUnit(range, unit, severity)
        \o DuplicationFinding(range, unit, severity)
        \o TestabilityFinding(range, unit, severity)
        \o SideEffectsFinding(range, unit, severity)

analyzeUnit(uri, unitRange) ==
    LET document == Catalog[content[uri]]
        target == TargetUnit(document, unitRange)
    IN  IF ~settings.enabled \/ ~target.found
        THEN /\ passes' = Analyzed(passes, uri, unitRange)
             /\ UNCHANGED << srpDiagnostics, violationMap, notifications, shown, inflight >>
        ELSE LET diagnostics ==
                     TargetDiagnostics(document, target.unit, SeverityOf(settings.severity))
                 Outside(d) == ~Contains(unitRange, d.range.start)
             IN  /\ srpDiagnostics' =
                        SetDiagnostics(srpDiagnostics, uri,
                            SelectSeq(srpDiagnostics[uri], Outside) \o diagnostics)
                 /\ violationMap' =
                        SetViolations(violationMap, uri,
                            SelectSeq(violationMap[uri], Outside)
                            \o [i \in DOMAIN diagnostics |-> Violation(uri, diagnostics[i])])
                 /\ IF Len(diagnostics) > 0
                    THEN Notify(uri, diagnostics, "unit")
                    ELSE UNCHANGED << notifications, shown >>
                 /\ passes' = Analyzed(Disturbed(uri), uri, unitRange)
                 /\ inflight' = Overtaken(uri, Len(inflight))

----------------------------------------------------------------------------
(* The extension: event handlers                                           *)

\* where an edit or the cursor can be
EventPositions == {Position(0, 0), Position(1, 2), Position(4, 0)}

NoTimeout == [set |-> FALSE, armed |-> FALSE, uri |-> "", range |-> NoRange]

NoUnit == [set |-> FALSE, uri |-> "", start |-> 0, end |-> 0]

NoPosition == [set |-> FALSE, position |-> Position(0, 0)]

\* the extension is activated under these settings
Activated(configuration) ==
    /\ content \in [Uris -> DOMAIN Catalog]
    /\ settings = configuration
    /\ srpDiagnostics = [uri \in Uris |-> <<>>]
    /\ violationMap = [uri \in Uris |-> <<>>]
    /\ notifiedViolations = [uri \in Uris |-> {}]
    /\ notifications = EmptyBag
    /\ inflight = <<>>
    /\ analysisTimeout = NoTimeout
    /\ lastAnalyzedUnit = NoUnit
    /\ lastCursorPosition = NoPosition
    /\ events = 0
    /\ shown = [uri \in Uris |-> [once |-> {}, again |-> {}, went |-> {}]]
    /\ passes = [uri \in Uris |->
                    [previous |-> NoPass, last |-> NoPass,
                     between |-> FALSE, disturbed |-> FALSE, edited |-> {}]]

InitExtension == Activated(DefaultSettings)

Init ==
    /\ input = MakeDocument(<<>>)
    /\ pc = "extension"
    /\ result = NoResult
    /\ InitExtension

\* every handler below is one event
Event ==
    /\ events < MaxEvents
    /\ events' = events + 1
    /\ UNCHANGED engine

\* onDidOpenTextDocument
OpenTextDocument(uri) ==
    /\ Event
    /\ analyzeDocument(uri)
    /\ UNCHANGED << content, settings, analysisTimeout, lastAnalyzedUnit, lastCursorPosition >>

\* onDidSaveTextDocument
SaveTextDocument(uri) ==
    /\ Event
    /\ analyzeDocument(uri)
    /\ UNCHANGED << content, settings, analysisTimeout, lastAnalyzedUnit, lastCursorPosition >>

\* the passes waiting for the LLM once pass i has resumed and published
Resumed(i) ==
    LET waiting == Overtaken(inflight[i].uri, i - 1)
    IN  SubSeq(waiting, 1, i - 1) \o SubSeq(waiting, i + 1, Len(waiting))

\* the request of a pass comes back and analyzeDocument resumes at line 337
LlmResponds(i, answer) ==
    /\ Event
    /\ i \in DOMAIN inflight
    /\ LET pass == inflight[i]
       IN  Publish(pass.uri,
                   analyzeWithLLM(Catalog[content[pass.uri]], pass.diagnostics, answer),
                   pass.content, TRUE)
    /\ inflight' = Resumed(i)
    /\ UNCHANGED << content, settings, analysisTimeout, lastAnalyzedUnit, lastCursorPosition >>

\* onDidChangeTextDocument, and debounceAnalyzeUnit when the change is in a unit
ChangeTextDocument(uri, i, position) ==
    /\ Event
    /\ content' = [content EXCEPT ![uri] = i]
    /\ LET unitRange == findUnitAtPosition(Catalog[i], position)
       IN  analysisTimeout' =
               IF unitRange.found
               THEN [set |-> TRUE, armed |-> TRUE, uri |-> uri, range |-> unitRange.range]
               ELSE analysisTimeout
    /\ passes' = Edited(uri, i, findUnitAtPosition(Catalog[i], position))
    /\ UNCHANGED << settings, srpDiagnostics, violationMap, notifiedViolations,
                    notifications, inflight, lastAnalyzedUnit, lastCursorPosition, shown >>

\* the callback of setTimeout in debounceAnalyzeUnit
TimeoutCallback ==
    /\ analysisTimeout.armed
    /\ analyzeUnit(analysisTimeout.uri, analysisTimeout.range)
    /\ lastAnalyzedUnit' =
           [set |-> TRUE, uri |-> analysisTimeout.uri,
            start |-> analysisTimeout.range.start.line,
            end |-> analysisTimeout.range.end.line]
    /\ analysisTimeout' = [analysisTimeout EXCEPT !.armed = FALSE]
    /\ UNCHANGED << content, settings, notifiedViolations, lastCursorPosition >>

\* the timer of debounceAnalyzeUnit runs out
AnalysisTimeoutFires ==
    /\ Event
    /\ TimeoutCallback

\* onDidChangeTextEditorSelection
ChangeTextEditorSelection(uri, currentPosition) ==
    /\ Event
    /\ LET seen == IF lastCursorPosition.set THEN lastCursorPosition.position
                   ELSE Position(0, 0)
           unitRange == [start |-> Position(lastAnalyzedUnit.start, 0),
                         end |-> Position(lastAnalyzedUnit.end, 0)]
       IN  IF currentPosition = seen
           THEN UNCHANGED << srpDiagnostics, violationMap, notifications, shown, passes,
                             inflight, analysisTimeout, lastAnalyzedUnit, lastCursorPosition >>
           ELSE /\ lastCursorPosition' = [set |-> TRUE, position |-> currentPosition]
                /\ IF /\ lastAnalyzedUnit.set
                      /\ lastAnalyzedUnit.uri = uri
                      /\ ~Contains(unitRange, currentPosition)
                      /\ analysisTimeout.set
                   THEN /\ analysisTimeout' = [analysisTimeout EXCEPT !.armed = FALSE]
                        /\ analyzeUnit(uri, unitRange)
                        /\ lastAnalyzedUnit' = NoUnit
                   ELSE UNCHANGED << srpDiagnostics, violationMap, notifications, shown,
                                     passes, inflight, analysisTimeout, lastAnalyzedUnit >>
    /\ UNCHANGED << content, settings, notifiedViolations >>

\* the buttons of a notification; no button stands for closing it
Choices(notification) ==
    {"Show Problems", "Apply Suggestion", "Ignore", "closed"}
    \cup (IF notification.goTo /\ notification.stage = "first"
          THEN {"Go to Violation"} ELSE {})

\* the record of what has been shown, after this answer: the keys, with the
\* kind of pass, whose notification was answered 'Go to Violation', until
\* their follow-up is answered
Answered(notification, choice) ==
    LET went == [key |-> notification.key, origin |-> notification.origin]
    IN  [shown EXCEPT ![notification.uri].went =
            IF choice = "Go to Violation" THEN @ \cup {went}
            ELSE IF notification.stage = "follow" THEN @ \ {went}
            ELSE @]

\* the user answers a notification and its async function resumes
AnswerNotification(notification, choice) ==
    /\ Event
    /\ BagIn(notification, notifications)
    /\ choice \in Choices(notification)
    /\ IF choice = "Go to Violation" /\ notification.origin = "document"
       THEN /\ notifications' =
                   (notifications (-) SetToBag({notification}))
                   (+) SetToBag({[notification EXCEPT !.stage = "follow", !.goTo = FALSE]})
            /\ UNCHANGED notifiedViolations
       ELSE /\ notifications' = notifications (-) SetToBag({notification})
            /\ notifiedViolations' =
                   [notifiedViolations EXCEPT ![notification.uri] = @ \cup {notification.key}]
    /\ shown' = Answered(notification, choice)
    /\ passes' = Disturbed(notification.uri)
    /\ UNCHANGED << content, settings, srpDiagnostics, violationMap, inflight,
                    analysisTimeout, lastAnalyzedUnit, lastCursorPosition >>

\* the user changes one setting of the extension
ChangeConfiguration(name) ==
    /\ Event
    /\ settings' =
           IF name = "severity"
           THEN [settings EXCEPT !.severity = IF @ = "info" THEN "warning" ELSE "info"]
           ELSE [settings EXCEPT ![name] = ~@]
    /\ passes' = [uri \in Uris |-> [passes[uri] EXCEPT !.disturbed = TRUE]]
    /\ UNCHANGED << content, srpDiagnostics, violationMap, notifiedViolations,
                    notifications, inflight, analysisTimeout, lastAnalyzedUnit,
                    lastCursorPosition, shown >>

Next ==
    \/ \E uri \in Uris : OpenTextDocument(uri)
    \/ \E uri \in Uris : SaveTextDocument(uri)
    \/ \E i \in 1..MaxInflight, answer \in LlmAnswers : LlmResponds(i, answer)
    \/ \E uri \in Uris, i \in DOMAIN Catalog, position \in EventPositions :
          ChangeTextDocument(uri, i, position)
    \/ AnalysisTimeoutFires
    \/ \E uri \in Uris, position \in EventPositions : ChangeTextEditorSelection(uri, position)
    \/ \E notification \in BagToSet(notifications) :
          \E choice \in Choices(notification) : AnswerNotification(notification, choice)
    \/ \E name \in SettingNames : ChangeConfiguration(name)

Spec == Init /\ [][Next]_vars

----------------------------------------------------------------------------
(* The extension: properties                                               *)

\* the two passes were run on the same text under the same configuration,
\* without the LLM
SameInput(previous, last) ==
    /\ previous # NoPass
    /\ last.content = previous.content
    /\ last.severity = previous.severity
    /\ ~last.llm /\ ~previous.llm

\* C1: whatever happened before, a pass of analyzeDocument on the text and
\* under the configuration of the pass before it (LLM disabled) publishes the
\* same ordered list of diagnostics: same codes, messages, severities and
\* ranges.
C1_Idempotence ==
    \A uri \in Uris :
        SameInput(passes[uri].previous, passes[uri].last)
            => passes[uri].last.diagnostics = passes[uri].previous.diagnostics

\* two passes on the same text have published findings, and between them
\* the user answered a notification or the document was touched
C1_Witness ==
    \E uri \in Uris :
        /\ SameInput(passes[uri].previous, passes[uri].last)
        /\ passes[uri].between
        /\ passes[uri].last.diagnostics # <<>>
        /\ srpDiagnostics[uri] = passes[uri].last.diagnostics
        /\ notifiedViolations[uri] # {}

\* C2: with notifications enabled, for every document and every violation
\* key (rule code and start line) at most one notification is ever shown,
\* over any interleaving of passes and answers, also when a pass starts
\* while the notification of an earlier pass is still unanswered.
C2_NotifiedOncePerKey ==
    \A uri \in Uris : shown[uri].again = {}

----------------------------------------------------------------------------
(* Duplication across units: inputs                                        *)

\* the most declarations of an input document
MaxDeclarations == 3

\* a function that calls another
CallFooFunction ==
    FunctionUnit(<<"f","o","o">>,
    <<"f","u","n","c","t","i","o","n"," ","f","o","o","(",")","{","a","(",")","}">>,
        Block(<<>>))

\* the same function under other names
CallBarFunction ==
    FunctionUnit(<<"b","a","r">>,
    <<"f","u","n","c","t","i","o","n"," ","b","a","r","(",")","{","b","(",")","}">>,
        Block(<<>>))

\* the same function without a name
UnnamedFunction ==
    FunctionUnit(<<>>,
    <<"f","u","n","c","t","i","o","n"," ","(",")","{","a","(",")","}">>,
        Block(<<>>))

\* a function with an empty body
EmptyFunction ==
    FunctionUnit(<<"f">>,
    <<"f","u","n","c","t","i","o","n"," ","f","(",")","{","}">>,
        Block(<<>>))

\* a function at similarity 9/15 to the empty one
ParamFunction ==
    FunctionUnit(<<"g">>,
    <<"f","u","n","c","t","i","o","n"," ","g","(","x",")","{","a","(",")","}">>,
        Block(<<>>))

\* a function unlike the others
ArrayFunction ==
    FunctionUnit(<<"h">>,
    <<"f","u","n","c","t","i","o","n"," ","h","(",")","{","[","1",",","2","]","}">>,
        Block(<<>>))

CrossUnits ==
    {CallFooFunction, CallBarFunction, UnnamedFunction, EmptyFunction, ParamFunction,
     ArrayFunction, TidyClass}

\* the documents of up to MaxDeclarations different declarations
CrossDocuments ==
    {MakeDocument(decls) :
        decls \in {ds \in UNION {[1..n -> CrossUnits] : n \in 1..MaxDeclarations} :
                      \A i, j \in DOMAIN ds : i # j => ds[i] # ds[j]}}

InitCross ==
    /\ input \in CrossDocuments
    /\ pc = "ready"
    /\ result = NoResult
    /\ NotActivated

SpecCross == InitCross /\ [][NextEngine]_vars

----------------------------------------------------------------------------
(* Duplication across units: properties                                    *)

\* the findings of the comparison of the functions
CrossFindings ==
    LET Cross(d) == d.message.text = "Code duplication: Similar logic to function"
    IN  SelectSeq(result.diagnostics, Cross)

\* the top-level functions of the input, in the order of the document
TopLevelFunctions == SelectSeq(input.units, IsFunction)

\* whether the similarity of the two texts is above 0.6
Similar(first, second) ==
    LET sim == textSimilarity(first.text, second.text)
    IN  10 * sim.num > 6 * sim.den

\* how many findings lie on the first function and name the second
FindingsOnNaming(first, second) ==
    Cardinality({k \in DOMAIN CrossFindings :
        /\ CrossFindings[k].range = UnitRange(input, first)
        /\ CrossFindings[k].message.names =
               << IF second.name = <<>> THEN Anonymous ELSE second.name >>
        /\ CrossFindings[k].code = "clean-code-assistant.duplication"})

\* C11: every unordered pair of different top-level functions is compared
\* once; a pair with similarity above 0.6 gets exactly two findings, one on
\* each function and naming the other ('anonymous' if unnamed), a pair with
\* similarity of at most 0.6 gets none; the number of cross-unit duplication
\* findings is twice the number of flagged pairs.
C11_CrossUnitDuplication ==
    pc = "done" =>
        LET fs == TopLevelFunctions
            flagged == {pair \in (DOMAIN fs) \X (DOMAIN fs) :
                           pair[1] < pair[2] /\ Similar(fs[pair[1]], fs[pair[2]])}
        IN  /\ Len(CrossFindings) = 2 * Cardinality(flagged)
            /\ \A i, j \in DOMAIN fs :
                  i < j =>
                      LET expected == IF << i, j >> \in flagged THEN 1 ELSE 0
                      IN  /\ FindingsOnNaming(fs[i], fs[j]) = expected
                          /\ FindingsOnNaming(fs[j], fs[i]) = expected

\* a pass over three functions: a flagged pair with an unnamed member, and a
\* pair at similarity 0.6 exactly, which is not flagged
C11_Witness ==
    /\ pc = "done"
    /\ Len(TopLevelFunctions) = 3
    /\ \E i, j \in DOMAIN TopLevelFunctions :
          /\ i < j
          /\ TopLevelFunctions[j].name = <<>>
          /\ Similar(TopLevelFunctions[i], TopLevelFunctions[j])
          /\ FindingsOnNaming(TopLevelFunctions[i], TopLevelFunctions[j]) = 1
    /\ \E i, j \in DOMAIN TopLevelFunctions :
          /\ i < j
          /\ LET sim == textSimilarity(TopLevelFunctions[i].text, TopLevelFunctions[j].text)
             IN  10 * sim.num = 6 * sim.den
          /\ FindingsOnNaming(TopLevelFunctions[i], TopLevelFunctions[j]) = 0


----------------------------------------------------------------------------
(* Similarity of two texts: inputs                                         *)

\* how far beyond the cap the normalized length of the long texts goes
MaxOver == 1

\* a text of raw length SimilarityCap + 6 and normalized length SimilarityCap
WideText == <<"a","b","c","d","e","f","g","h">> \o Repeat("(", SimilarityCap - 2)

\* a text of raw length SimilarityCap + k - 1 and normalized length SimilarityCap + k
NarrowText(k) == <<"x">> \o Repeat("(", SimilarityCap + k - 2)

SimilarityTexts ==
    {<<>>,
     <<" "," ","\n">>,
     <<"f","u","n","c","t","i","o","n"," ","f","(",")","{","}">>,
     <<"f","u","n","c","t","i","o","n"," ","g","(","x",")","{","a","(",")","}">>,
     <<"f","u","n","c","t","i","o","n"," ","h","(",")","{","[","1",",","2","]","}">>,
     <<"$","a"," ","="," ","1">>,
     WideText}
    \cup {NarrowText(k) : k \in 1..MaxOver}

\* textSimilarity applied to the two texts of the input, in both orders
CompareInput ==
    /\ pc = "compare"
    /\ result' = [na |-> normalizeForDuplication(input.a),
                  nb |-> normalizeForDuplication(input.b),
                  similarity |-> textSimilarity(input.a, input.b),
                  reverse |-> textSimilarity(input.b, input.a)]
    /\ pc' = "done"
    /\ UNCHANGED << input, extension >>

InitSimilarity ==
    /\ input \in [a : SimilarityTexts, b : SimilarityTexts]
    /\ pc = "compare"
    /\ result = NoResult
    /\ NotActivated

SpecSimilarity == InitSimilarity /\ [][CompareInput]_vars

----------------------------------------------------------------------------
(* Similarity of two texts: properties                                     *)

\* similarity > 0.6, the test of the cross-unit comparison
AboveThreshold(sim) == 10 * sim.num > 6 * sim.den

\* C12: textSimilarity(a, b) = textSimilarity(b, a) for all texts, also when
\* one or both normalized texts are empty or longer than the cap, so the
\* order of the two functions does not decide whether the pair is flagged.
C12_Symmetry ==
    pc = "done" =>
        /\ result.similarity.num * result.reverse.den
               = result.reverse.num * result.similarity.den
        /\ AboveThreshold(result.similarity) = AboveThreshold(result.reverse)

\* two texts of different normalized lengths, neither equal nor unrelated
C12_Witness ==
    /\ pc = "done"
    /\ Len(result.na) < Len(result.nb)
    /\ 0 < result.similarity.num
    /\ result.similarity.num < result.similarity.den
    /\ result.reverse.num < result.reverse.den

\* C14: textSimilarity is 0 whenever either normalized text is longer than
\* 1000 characters, also for two identical texts, for which an edit distance
\* would give 1; it is 1 when both normalized texts are empty; it always
\* returns a number from 0 to 1; a text over the cap is never in a flagged
\* pair.
C14_LengthCap ==
    pc = "done" =>
        /\ (Len(result.na) > 1000 \/ Len(result.nb) > 1000) =>
               /\ result.similarity.num = 0
               /\ ~AboveThreshold(result.similarity)
        /\ (Len(result.na) = 0 /\ Len(result.nb) = 0) =>
               result.similarity.num = result.similarity.den
        /\ result.similarity.den > 0
        /\ result.similarity.num \in 0..result.similarity.den

\* a text of 1000 characters whose normalized text has 1001, compared with
\* itself
C14_Witness ==
    /\ pc = "done"
    /\ input.a = input.b
    /\ Len(input.a) = 1000
    /\ Len(result.na) = 1001
    /\ result.similarity.num = 0


----------------------------------------------------------------------------
(* Similarity of a function and a renamed copy                             *)

\* the names an identifier of the copy may take
IdentifierNames ==
    {<<"f">>,
     <<"g","1">>,
     <<"_","h">>,
     <<"$","k">>}

\* a piece of a function text: literal characters, or the identifier of a slot
Literal(chars) == [slot |-> 0, chars |-> chars]
Identifier(slot) == [slot |-> slot, chars |-> <<>>]

\* function #1(){}
EmptyTemplate ==
    << Literal(<<"f","u","n","c","t","i","o","n"," ">>), Identifier(1), Literal(<<"(",")","{","}">>) >>

\* function #1(#2){return #2+1}
ReturnTemplate ==
    << Literal(<<"f","u","n","c","t","i","o","n"," ">>), Identifier(1), Literal(<<"(">>), Identifier(2),
       Literal(<<")","{","r","e","t","u","r","n"," ">>), Identifier(2), Literal(<<"+","1","}">>) >>

\* function #1(){;;;...} with a normalized text k characters over the cap
LongTemplate(k) ==
    << Literal(<<"f","u","n","c","t","i","o","n"," ">>), Identifier(1),
       Literal(<<"(",")","{">> \o Repeat(";", SimilarityCap + k - 9) \o <<"}">>) >>

Templates == {EmptyTemplate, ReturnTemplate} \cup {LongTemplate(k) : k \in 1..MaxOver}

Slots(template) == {template[i].slot : i \in DOMAIN template} \ {0}

\* the text of the template with its identifiers named
Fill(template, naming) ==
    Flatten([i \in DOMAIN template |->
                IF template[i].slot = 0 THEN template[i].chars
                ELSE naming[template[i].slot]])

\* a function text and a copy of it that differs in identifier names only
RenamedPairs ==
    UNION {{[a |-> Fill(t, first), b |-> Fill(t, second)] :
               first \in [Slots(t) -> IdentifierNames],
               second \in [Slots(t) -> IdentifierNames]} : t \in Templates}

InitRenaming ==
    /\ input \in RenamedPairs
    /\ pc = "compare"
    /\ result = NoResult
    /\ NotActivated

SpecRenaming == InitRenaming /\ [][CompareInput]_vars

\* C13: a function text and a copy that differs from it in identifier names
\* only have equal normalized texts, edit distance 0 and similarity 1,
\* provided the normalized texts have at most 1000 characters.
C13_RenamedCopy ==
    (/\ pc = "done"
     /\ Len(result.na) <= 1000
     /\ Len(result.nb) <= 1000) =>
        /\ result.na = result.nb
        /\ levenshtein(result.na, result.nb) = 0
        /\ result.similarity.num = result.similarity.den


----------------------------------------------------------------------------
(* Testability and side effects: inputs                                    *)

\* the most statements of an input function
MaxBodyLines == 2

BodyLines ==
    {<<"r","e","t","u","r","n"," ","a"," ","+"," ","b",";">>,
     <<"t","o","t","a","l"," ","="," ","a",";">>,
     <<"t","o","t","a","l"," ","+","="," ","a",";">>,
     <<"t","h","i","s",".","c","o","u","n","t"," ","="," ","a",";">>,
     <<"c","o","n","s","o","l","e",".","l","o","g","(","a",")",";">>,
     <<"c","o","n","s","o","l","e",".","i","n","f","o","(","a",")",";">>,
     <<"r","e","t","u","r","n"," ","n","e","w"," ","D","a","t","e","(",")",";">>,
     <<"w","i","n","d","o","w",".","a","l","e","r","t","(","a",")",";">>,
     <<"r","e","t","u","r","n"," ","a"," ","=","="," ","b",";">>,
     <<"r","e","t","u","r","n"," ","t","h","i","s",".","c","o","u","n","t"," ","=","="," ","a",
      ";">>,
     <<"a",".","b"," ","="," ","1",";">>,
     <<"r","e","t","u","r","n"," ","a"," ","<","="," ","b",";">>}

HeuristicsName == <<"f">>

\* function f(a, b) { ... } with the given statements, one per line
HeuristicsText(ls) ==
    Join(<< <<"f","u","n","c","t","i","o","n"," ","f","(","a",","," ","b",")"," ","{">> >> \o ls \o << <<"}">> >>, <<"\n">>)

HeuristicsUnits ==
    {FunctionUnit(HeuristicsName, HeuristicsText(ls), NoBody) :
        ls \in UNION {[1..n -> BodyLines] : n \in 1..MaxBodyLines}}

InitHeuristics ==
    /\ \E unit \in HeuristicsUnits : input = MakeDocument(<< unit >>)
    /\ pc = "ready"
    /\ result = NoResult
    /\ NotActivated

SpecHeuristics == InitHeuristics /\ [][NextEngine]_vars

----------------------------------------------------------------------------
(* Testability and side effects: properties                                *)

\* an assignment operator (=, +=, -=, *=, /=) at position q of s: its = is
\* not the start of ==, === or =>
AssignmentOperatorAt(s, q, compound) ==
    /\ q <= Len(s)
    /\ LET e == IF s[q] = "=" THEN q
                ELSE IF compound /\ s[q] \in {"+", "-", "*", "/"}
                        /\ q + 1 <= Len(s) /\ s[q + 1] = "="
                THEN q + 1
                ELSE 0
       IN  /\ e > 0
           /\ ~(e + 1 <= Len(s) /\ s[e + 1] \in {"=", ">"})

\* an assignment to an identifier that no member-access dot precedes
AssignsBareIdentifier(s) ==
    \E p \in 1..Len(s) :
        /\ TokenStart(s, p)
        /\ p = 1 \/ s[p - 1] # "."
        /\ AssignmentOperatorAt(s, SkipSpace(s, WordEnd(s, p)), TRUE)

\* this.<field> = ...
AssignsInstanceField(s) ==
    \E p \in 1..Len(s) :
        /\ Boundary(s, p)
        /\ MatchAt(s, p, <<"t","h","i","s",".">>)
        /\ WordAt(s, p + 5)
        /\ AssignmentOperatorAt(s, SkipSpace(s, WordEnd(s, p + 5)), FALSE)

\* C15: a unit gets a testability finding iff its text contains an object
\* instantiation, one of the identifiers global, window, document, a call of
\* console.log, console.error or console.warn, or an assignment to a bare
\* identifier that no member-access dot precedes.
C15_TestabilityPredicate ==
    pc = "done" =>
        \A i \in DOMAIN input.units :
            LET unit == input.units[i]
            IN  Emitted(unit, "clean-code-assistant.testability")
                    <=> \/ HasNew(unit.text)
                        \/ HasGlobals(unit.text)
                        \/ HasConsole(unit.text)
                        \/ AssignsBareIdentifier(unit.text)

\* C16: a unit gets a side-effects finding iff its text assigns to an
\* instance field, calls console.log, console.error or console.warn, or
\* assigns to a bare identifier; a unit with a console call or a bare
\* assignment gets both the side-effects and the testability finding.
C16_SideEffectPredicate ==
    pc = "done" =>
        \A i \in DOMAIN input.units :
            LET unit == input.units[i]
            IN  /\ Emitted(unit, "clean-code-assistant.side-effects")
                       <=> \/ AssignsInstanceField(unit.text)
                           \/ HasConsole(unit.text)
                           \/ AssignsBareIdentifier(unit.text)
                /\ (HasConsole(unit.text) \/ AssignsBareIdentifier(unit.text)) =>
                       /\ Emitted(unit, "clean-code-assistant.side-effects")
                       /\ Emitted(unit, "clean-code-assistant.testability")


----------------------------------------------------------------------------
(* Dependency graph: inputs                                                *)

\* functions with equal names, without a name, and with a name inside a name
GraphUnits ==
    {FunctionUnit(<<"f","o","o">>,
         <<"f","u","n","c","t","i","o","n"," ","f","o","o","(",")","{","b","a","r","(",")","}">>, NoBody),
     FunctionUnit(<<"f","o","o">>,
         <<"f","u","n","c","t","i","o","n"," ","f","o","o","(",")","{","}">>, NoBody),
     FunctionUnit(<<"b","a","r">>,
         <<"f","u","n","c","t","i","o","n"," ","b","a","r","(",")","{","f","o","o","(",")","}">>, NoBody),
     FunctionUnit(<<>>,
         <<"f","u","n","c","t","i","o","n"," ","(",")","{","f","o","o","(",")",";","b","a","r","(",
      ")","}">>, NoBody),
     FunctionUnit(<<"g","o">>,
         <<"f","u","n","c","t","i","o","n"," ","g","o","(",")","{","}">>, NoBody),
     FunctionUnit(<<"b","a","r","n">>,
         <<"f","u","n","c","t","i","o","n"," ","b","a","r","n","(",")","{","}">>, NoBody)}

\* the documents of up to MaxDeclarations of these functions
GraphDocuments ==
    {MakeDocument(decls) : decls \in UNION {[1..n -> GraphUnits] : n \in 1..MaxDeclarations}}

\* Step 3 of analyzeDocument on the units of the input: the graph
GraphOfInput ==
    /\ pc = "ready"
    /\ result' = [units |-> UnitList(input),
                  graph |-> buildDependencyGraph(UnitList(input))]
    /\ pc' = "done"
    /\ UNCHANGED << input, extension >>

InitGraph ==
    /\ input \in GraphDocuments
    /\ pc = "ready"
    /\ result = NoResult
    /\ NotActivated

SpecGraph == InitGraph /\ [][GraphOfInput]_vars

----------------------------------------------------------------------------
(* Dependency graph: properties                                            *)

\* the keys of a graph
Keys(graph) == {graph[k].name : k \in DOMAIN graph}

\* every key once, the keys are the names of the units, no list holds its
\* own key, every name in a list is a key
WellFormedGraph(units, graph) ==
    /\ \A k, l \in DOMAIN graph : graph[k].name = graph[l].name => k = l
    /\ Keys(graph) = {IF units[i].name = <<>> THEN Anonymous ELSE units[i].name :
                         i \in DOMAIN units}
    /\ \A k \in DOMAIN graph :
          /\ graph[k].name \notin Elems(graph[k].deps)
          /\ Elems(graph[k].deps) \subseteq Keys(graph)

\* the unit whose list the graph keeps under the key: the last of that name
LastNamed(units, key) ==
    units[CHOOSE i \in DOMAIN units :
             /\ (IF units[i].name = <<>> THEN Anonymous ELSE units[i].name) = key
             /\ \A j \in DOMAIN units :
                   (IF units[j].name = <<>> THEN Anonymous ELSE units[j].name) = key
                       => j <= i]

\* the statement of C17 as it stands: for units A and B, the name of B is in
\* the list of A iff B is another unit than A and the name of B occurs in
\* the text of A
C17_AnotherUnitAsStated ==
    pc = "done" =>
        /\ WellFormedGraph(result.units, result.graph)
        /\ \A a, b \in DOMAIN result.units :
              LET A == result.units[a]
                  B == result.units[b]
                  list == MapGet(result.graph, IF A.name = <<>> THEN Anonymous ELSE A.name)
              IN  B.name # <<>> =>
                      (B.name \in Elems(list) <=> (a # b /\ Includes(A.text, B.name)))

\* C17: buildDependencyGraph yields one key per unit name ('anonymous' for an
\* unnamed unit); the list under a key holds the name of B iff B has a name
\* other than the key and that name occurs in the text of the last unit of
\* that key; no list holds its own key and every name in a list is a key.
C17_DependencyGraph ==
    pc = "done" =>
        /\ WellFormedGraph(result.units, result.graph)
        /\ \A k \in DOMAIN result.graph :
              \A b \in DOMAIN result.units :
                  LET B == result.units[b]
                      key == result.graph[k].name
                  IN  B.name # <<>> =>
                          (B.name \in Elems(result.graph[k].deps)
                              <=> (/\ B.name # key
                                   /\ Includes(LastNamed(result.units, key).text, B.name)))

\* two units of one name of which only the first refers to a third unit,
\* and an unnamed unit
C17_Witness ==
    /\ pc = "done"
    /\ \E a, b, c \in DOMAIN result.units :
          /\ a < b
          /\ result.units[a].name = result.units[b].name
          /\ result.units[c].name = <<>>
          /\ \E k \in DOMAIN result.graph :
                /\ result.graph[k].name = Anonymous
                /\ Len(result.graph[k].deps) = 2
          /\ Includes(result.units[a].text, <<"b","a","r">>)
          /\ MapGet(result.graph, result.units[a].name) = <<>>


----------------------------------------------------------------------------
(* Cycle detection on a graph of three nodes                               *)

NodeNames == {<<"A">>, <<"B">>, <<"C">>, <<"D">>, <<"E">>}

\* the graphs with the edges first -> second, second -> third and
\* third -> first and no other edge, with the keys in every insertion order
ThreeCycles ==
    {[k \in 1..3 |-> [name |-> order[k], deps |-> << next[order[k]] >>]] :
        order \in {o \in [1..3 -> NodeNames] : Cardinality({o[1], o[2], o[3]}) = 3},
        next \in {n \in [NodeNames -> NodeNames] : \A x \in NodeNames : n[x] # x}}

ThreeCycleGraphs ==
    {graph \in ThreeCycles :
        LET first == graph[1].name
            second == graph[1].deps[1]
            third == MapGet(graph, second)[1]
        IN  /\ second \in Keys(graph)
            /\ third \in Keys(graph) \ {first, second}
            /\ MapGet(graph, third) = << first >>}

\* detectCycles applied to the graph of the input
CyclesOfInput ==
    /\ pc = "graph"
    /\ result' = [cycles |-> detectCycles(input)]
    /\ pc' = "done"
    /\ UNCHANGED << input, extension >>

InitCycles ==
    /\ input \in ThreeCycleGraphs
    /\ pc = "graph"
    /\ result = NoResult
    /\ NotActivated

SpecCycles == InitCycles /\ [][CyclesOfInput]_vars

\* C18: on a graph with exactly the edges A -> B, B -> C and C -> A,
\* detectCycles returns the cycle of the three nodes in traversal order:
\* the key iterated first, the node it refers to, and the node that one
\* refers to, whichever of the three keys comes first.
C18_ThreeCycle ==
    pc = "done" =>
        LET root == input[1].name
            second == MapGet(input, root)[1]
            third == MapGet(input, second)[1]
        IN  /\ \E c \in DOMAIN result.cycles : result.cycles[c] = << root, second, third >>
            /\ \A c \in DOMAIN result.cycles : Elems(result.cycles[c]) = Keys(input)

\* a graph whose keys were inserted against the direction of the edges
C18_Witness ==
    /\ pc = "done"
    /\ input[3].name = input[1].deps[1]
    /\ input[1].name = input[2].deps[1]
    /\ Len(result.cycles) = 1
    /\ result.cycles[1] = << input[1].name, input[3].name, input[2].name >>


----------------------------------------------------------------------------
(* Scenario 6: two functions that refer to each other                      *)

\* the dependency-cycle findings of the pass
CycleFindings ==
    LET Cycle(d) == d.code = "clean-code-assistant.dependency-cycle"
    IN  SelectSeq(result.diagnostics, Cycle)

\* cycle.join(' -> ')
ArrowJoined(names) == Join(names, <<" ", "-", ">", " ">>)

\* the top-level functions of the input are foo and bar, which refer to
\* each other, in this order or the other
FooAndBar ==
    /\ pc = "done"
    /\ Len(TopLevelFunctions) = 2
    /\ \E i, j \in 1..2 :
          /\ TopLevelFunctions[i].name = <<"f","o","o">>
          /\ TopLevelFunctions[j].name = <<"b","a","r">>
          /\ Includes(TopLevelFunctions[i].text, <<"b","a","r">>)
          /\ Includes(TopLevelFunctions[j].text, <<"f","o","o">>)

WholeDocument ==
    [start |-> positionAt(input.text, 0), end |-> positionAt(input.text, Len(input.text))]

\* the statement of Scenario 6 as it stands: the finding reports
\* foo -> bar -> foo, or bar -> foo -> bar
C19_ClosedLoopAsStated ==
    FooAndBar =>
        /\ Len(CycleFindings) = 1
        /\ ArrowJoined(CycleFindings[1].message.names)
               \in {<<"f","o","o"," ","-",">"," ","b","a","r"," ","-",">"," ","f","o","o">>,
                    <<"b","a","r"," ","-",">"," ","f","o","o"," ","-",">"," ","b","a","r">>}

\* C19: for two top-level functions foo and bar that refer to each other,
\* one dependency-cycle finding is emitted, on the whole document; it lists
\* each function of the cycle once, from the traversal root on: foo -> bar
\* when foo comes first, bar -> foo when bar comes first.
C19_ScenarioSix ==
    FooAndBar =>
        /\ Len(CycleFindings) = 1
        /\ CycleFindings[1].range = WholeDocument
        /\ ArrowJoined(CycleFindings[1].message.names)
               = IF TopLevelFunctions[1].name = <<"f","o","o">>
                 THEN <<"f","o","o"," ","-",">"," ","b","a","r">>
                 ELSE <<"b","a","r"," ","-",">"," ","f","o","o">>

\* bar before foo, and the finding that starts at bar
C19_Witness ==
    /\ FooAndBar
    /\ TopLevelFunctions[1].name = <<"b","a","r">>
    /\ Len(CycleFindings) = 1
    /\ CycleFindings[1].message.names = << <<"b","a","r">>, <<"f","o","o">> >>


----------------------------------------------------------------------------
(* A failure inside the try block of analyzeDocument                       *)

\* the text length above which basicAnalyzeDocument reports a large file
LargeFileLength == 1000

\* basicAnalyzeDocument
basicAnalyzeDocument(document, severity) ==
    IF Len(document.text) > LargeFileLength
    THEN << Diagnostic([start |-> positionAt(document.text, 0),
                        end |-> positionAt(document.text, Len(document.text))],
                       "clean-code-assistant.large-file",
                       "Large file detected", 0, <<>>, <<>>, severity) >>
    ELSE <<>>

\* the diagnostic of the catch block; no code is set on it
AnalysisErrorDiagnostic ==
    Diagnostic([start |-> [line |-> 0, character |-> 0],
                end |-> [line |-> 0, character |-> 0]],
               "", "Analysis error", 0, <<>>, <<>>, "Error")

\* the catch block: what it pushes onto the diagnostics
CatchDiagnostics(document, severity) ==
    basicAnalyzeDocument(document, severity) \o << AnalysisErrorDiagnostic >>

\* the length of the comment of the padding function
PadLength == 1000

\* a function of more than 1000 characters: function pad() {/*** ... */}
PadFunction ==
    FunctionUnit(<<"p","a","d">>,
        <<"f","u","n","c","t","i","o","n"," ","p","a","d","(",")"," ","{","/","*">> \o Repeat("*", PadLength) \o <<"*","/","}">>,
        Block(<<>>))

FailureUnits == {FooFunction, BarFunction, GoFunction, BigClass, PadFunction}

\* the documents of one or two different declarations
FailureDocuments ==
    {MakeDocument(decls) :
        decls \in {ds \in UNION {[1..n -> FailureUnits] : n \in 1..2} :
                      \A i, j \in DOMAIN ds : i # j => ds[i] # ds[j]}}

\* one pass in which the try block raises: at the parse (nothing pushed
\* yet) or at a later step, after the first `pushed` calls of
\* diagnostics.push.  The list is declared before the try block, so what was
\* pushed stays; the catch block appends to it and analyzeDocument goes on
\* to line 337.
AnalyzeInputRaising ==
    /\ pc = "ready"
    /\ LET completed == StaticDiagnostics(input, "Warning")
           caught == CatchDiagnostics(input, "Warning")
       IN  \E pushed \in 0..Len(completed) :
               result' = [diagnostics |-> SubSeq(completed, 1, pushed) \o caught,
                          pushed |-> pushed,
                          propagated |-> FALSE]
    /\ pc' = "done"
    /\ UNCHANGED << input, extension >>

InitFailure ==
    /\ input \in FailureDocuments
    /\ pc = "ready"
    /\ result = NoResult
    /\ NotActivated

SpecFailure == InitFailure /\ [][AnalyzeInputRaising]_vars

----------------------------------------------------------------------------
(* Cycle detection on the graphs of up to three units: inputs              *)

\* the longest list of a key
MaxDeps == 2

DetectNodes == {<<"A">>, <<"B">>, <<"C">>}

\* the keys of a graph in their insertion order
KeyOrders ==
    {order \in UNION {[1..n -> DetectNodes] : n \in 1..3} :
        \A i, j \in DOMAIN order : i # j => order[i] # order[j]}

\* the lists a key may have: names of other keys, in any order, a name
\* possibly more than once (several units of one name)
DepsLists(order, key) ==
    UNION {[1..n -> Elems(order) \ {key}] : n \in 0..MaxDeps}

\* one entry of a graph
Entry(order, k, deps) == [name |-> order[k], deps |-> deps]

\* the graphs buildDependencyGraph can return for these keys: no list holds
\* its own key, every name in a list is a key
GraphsOf(order) ==
    IF Len(order) = 1
    THEN {<< Entry(order, 1, <<>>) >>}
    ELSE IF Len(order) = 2
    THEN {<< Entry(order, 1, d1), Entry(order, 2, d2) >> :
             d1 \in DepsLists(order, order[1]), d2 \in DepsLists(order, order[2])}
    ELSE {<< Entry(order, 1, d1), Entry(order, 2, d2), Entry(order, 3, d3) >> :
             d1 \in DepsLists(order, order[1]), d2 \in DepsLists(order, order[2]),
             d3 \in DepsLists(order, order[3])}

\* detectCycles applied to the graph of the input, with the sets visited
\* and recStack as they are when it returns
DetectInput ==
    /\ pc = "graph"
    /\ LET st == DetectFrom(input, 1, [cycles |-> <<>>, visited |-> {}, recStack |-> {}])
       IN  result' = [cycles |-> detectCycles(input),
                      visited |-> st.visited,
                      recStack |-> st.recStack]
    /\ pc' = "done"
    /\ UNCHANGED << input, extension >>

InitDetect ==
    /\ \E order \in KeyOrders : input \in GraphsOf(order)
    /\ pc = "graph"
    /\ result = NoResult
    /\ NotActivated

SpecDetect == InitDetect /\ [][DetectInput]_vars

----------------------------------------------------------------------------
(* Cycle detection: properties                                             *)

\* the graph has the edge from -> to
Edge(graph, from, to) == to \in Elems(MapGet(graph, from))

\* a list of different nodes, each with an edge to the next and the last
\* with an edge to the first
IsCycle(graph, c) ==
    /\ Len(c) >= 1
    /\ \A i, j \in DOMAIN c : i # j => c[i] # c[j]
    /\ \A i \in DOMAIN c : Edge(graph, c[i], c[(i % Len(c)) + 1])

\* the simple directed cycles of the graph, each from every starting node
SimpleCycles(graph) ==
    {c \in UNION {[1..n -> Keys(graph)] : n \in 1..Len(graph)} : IsCycle(graph, c)}

\* d is c started at another (or the same) node
Rotation(c, d) ==
    /\ Len(c) = Len(d)
    /\ \E k \in 0..(Len(c) - 1) :
          \A i \in DOMAIN c : d[i] = c[((i - 1 + k) % Len(c)) + 1]

\* no list of the graph holds a name twice
NoRepeatedName(graph) ==
    \A k \in DOMAIN graph :
        \A i, j \in DOMAIN graph[k].deps :
            i # j => graph[k].deps[i] # graph[k].deps[j]

\* C26: every simple directed cycle of the graph is reported by
\* detectCycles at least once, up to the node it starts at, so every unit
\* on a cycle is named in a reported cycle.
C26_EveryCycleReported ==
    pc = "done" =>
        /\ \A c \in SimpleCycles(input) :
              \E r \in DOMAIN result.cycles : Rotation(c, result.cycles[r])
        /\ \A c \in SimpleCycles(input) :
              \A i \in DOMAIN c :
                  \E r \in DOMAIN result.cycles : c[i] \in Elems(result.cycles[r])

\* C27: on a graph whose lists hold no name twice, detectCycles returns no
\* two equal cycles and no two cycles that are rotations of one another; a
\* graph that is one 3-cycle gives exactly one cycle whichever key is first.
C27_NoCycleTwice ==
    (pc = "done" /\ NoRepeatedName(input)) =>
        /\ \A r, s \in DOMAIN result.cycles :
              r # s => ~Rotation(result.cycles[r], result.cycles[s])
        /\ (Len(input) = 3 /\ \A k \in DOMAIN input : Len(input[k].deps) = 1
               /\ Cardinality(SimpleCycles(input)) = 3)
              => Len(result.cycles) = 1

\* a graph with two cycles through one node, both reported once
C27_Witness ==
    /\ pc = "done"
    /\ NoRepeatedName(input)
    /\ Len(result.cycles) = 2
    /\ Len(result.cycles[1]) = 2
    /\ Len(result.cycles[2]) = 2
    /\ Elems(result.cycles[1]) # Elems(result.cycles[2])

\* C28: every cycle detectCycles returns has pairwise different nodes, an
\* edge of the graph from each node to the next and from the last to the
\* first, and at least two nodes.
C28_GenuineCycles ==
    pc = "done" =>
        \A r \in DOMAIN result.cycles :
            /\ IsCycle(input, result.cycles[r])
            /\ Len(result.cycles[r]) >= 2

\* a reported cycle that does not start at the first key
C28_Witness ==
    /\ pc = "done"
    /\ Len(input) = 3
    /\ \E r \in DOMAIN result.cycles :
          /\ Len(result.cycles[r]) = 2
          /\ input[1].name \notin Elems(result.cycles[r])

\* C29: detectCycles returns with an empty recursion stack, and with a
\* non-empty list iff the graph has a directed cycle, whatever the order of
\* the keys and of the names in the lists.
C29_CyclicIffReported ==
    pc = "done" =>
        /\ result.recStack = {}
        /\ result.visited = Keys(input)
        /\ (Len(result.cycles) > 0) <=> (SimpleCycles(input) # {})

\* an acyclic graph in which a node is reached twice, and nothing reported
C29_Witness ==
    /\ pc = "done"
    /\ Len(input) = 3
    /\ SimpleCycles(input) = {}
    /\ \E n \in Keys(input) :
          Cardinality({k \in DOMAIN input : n \in Elems(input[k].deps)}) = 2
    /\ result.cycles = <<>>


----------------------------------------------------------------------------
(* The augmentation by the LLM: inputs                                     *)

\* the most violations in an answer of the LLM
MaxViolations == 2

\* a violation on line 2, one on a line beyond the document and of a
\* severity the switch does not know, and a null
AnswerViolations ==
    {ViolationObject("readability", "high", 2),
     ViolationObject("solid", "major", 99),
     NullViolation}

LlmResponses ==
    {[failed |-> TRUE, parses |-> FALSE, violations |-> <<>>],
     [failed |-> FALSE, parses |-> FALSE, violations |-> <<>>]}
    \cup {[failed |-> FALSE, parses |-> TRUE, violations |-> vs] :
             vs \in UNION {[1..n -> AnswerViolations] : n \in 0..MaxViolations}}

LlmDocuments ==
    {MakeDocument(<< TidyClass >>), MakeDocument(<< FooFunction, BarFunction >>)}

\* analyzeWithLLM called with the diagnostics of the try block
AugmentInput ==
    /\ pc = "llm"
    /\ LET existingDiagnostics == StaticDiagnostics(input.document, "Warning")
       IN  result' =
             [existing |-> existingDiagnostics,
              returned |-> LlmAugmented(input.document, existingDiagnostics,
                                        input.llmEnabled, input.apiKey, input.response),
              raised |-> FALSE]
    /\ pc' = "done"
    /\ UNCHANGED << input, extension >>

InitLlm ==
    /\ input \in [document : LlmDocuments, llmEnabled : BOOLEAN,
                  apiKey : {"", "key"}, response : LlmResponses]
    /\ pc = "llm"
    /\ result = NoResult
    /\ NotActivated

SpecLlm == InitLlm /\ [][AugmentInput]_vars

----------------------------------------------------------------------------
(* The augmentation by the LLM: properties                                 *)

\* the static diagnostics are the first elements of the list returned
StaticPrefix ==
    /\ Len(result.returned) >= Len(result.existing)
    /\ SubSeq(result.returned, 1, Len(result.existing)) = result.existing

\* the LLM is off, has no key, or the request, the parsing of the answer or
\* the conversion of a violation fails
LlmUnavailable ==
    \/ ~input.llmEnabled
    \/ input.apiKey = ""
    \/ input.response.failed
    \/ ~input.response.parses
    \/ \E i \in DOMAIN input.response.violations : ~input.response.violations[i].present

\* the statement of C21 as it stands: the list returned equals the static
\* diagnostics exactly when the LLM is off, has no key or fails
C21_EqualOnlyOnFailureAsStated ==
    pc = "done" =>
        /\ StaticPrefix
        /\ ~result.raised
        /\ (result.returned = result.existing) <=> LlmUnavailable

\* C21: in every outcome of analyzeWithLLM the static diagnostics are a
\* prefix, unchanged, of the list returned; the list returned equals the
\* static diagnostics exactly when the LLM is off, has no key, fails (no
\* partial results are kept) or reports no violation; otherwise one
\* diagnostic per violation follows them; no error reaches the caller.
C21_LlmAugmentation ==
    pc = "done" =>
        /\ StaticPrefix
        /\ ~result.raised
        /\ (result.returned = result.existing)
               <=> (LlmUnavailable \/ input.response.violations = <<>>)
        /\ ~LlmUnavailable =>
               Len(result.returned)
                   = Len(result.existing) + Len(input.response.violations)

\* an answer whose second violation is null, on a document with findings:
\* the diagnostic of the first violation is not kept
C21_Witness ==
    /\ pc = "done"
    /\ input.llmEnabled
    /\ input.apiKey # ""
    /\ Len(input.response.violations) = 2
    /\ input.response.violations[1].present
    /\ ~input.response.violations[2].present
    /\ result.existing # <<>>
    /\ result.returned = result.existing


----------------------------------------------------------------------------
(* The extension: debounced analysis                                       *)

\* the timer runs out after the last event of the user
LateTimeout ==
    /\ events = MaxEvents
    /\ TimeoutCallback
    /\ UNCHANGED << events, engine >>

\* edits, cursor movements, saves and the timer, from a document with units
InitDebounce ==
    /\ input = MakeDocument(<<>>)
    /\ pc = "extension"
    /\ result = NoResult
    /\ InitExtension
    /\ content \in [Uris -> {3, 4}]

NextDebounce ==
    \/ \E uri \in Uris, i \in DOMAIN Catalog, position \in EventPositions :
          ChangeTextDocument(uri, i, position)
    \/ \E uri \in Uris, position \in EventPositions : ChangeTextEditorSelection(uri, position)
    \/ \E uri \in Uris : SaveTextDocument(uri)
    \/ AnalysisTimeoutFires
    \/ LateTimeout

\* the timer stops being armed: its callback runs, in AnalysisTimeoutFires
\* or LateTimeout, or the cursor handler clears it
TimerEnds ==
    /\ analysisTimeout.armed
    /\ analysisTimeout' = [analysisTimeout EXCEPT !.armed = FALSE]

\* the event loop runs the callback of a timer that stays armed
SpecDebounce ==
    InitDebounce /\ [][NextDebounce]_vars /\ WF_analysisTimeout(TimerEnds)

\* the ranges of the units of the documents
CatalogRanges == UNION {CatalogUnitRanges[i] : i \in DOMAIN Catalog}

\* C22: for every unit that received an edit, in every interleaving of edits
\* to any units, an analysis of that unit eventually runs after its editing
\* has stopped; an edit to one unit is never left without a following
\* analysis because a later edit elsewhere re-armed the timer.
C22_EditedUnitAnalyzed ==
    \A uri \in Uris : \A range \in CatalogRanges :
        (range \in passes[uri].edited) ~> (range \notin passes[uri].edited)


----------------------------------------------------------------------------
(* The extension: the cursor leaves a unit                                 *)

\* this step is the handler of a cursor movement to another position
CursorMoved == lastCursorPosition' # lastCursorPosition

\* this step is the handler of a cursor movement that called analyzeUnit:
\* no other step sets lastAnalyzedUnit to null
CursorAnalysis == lastAnalyzedUnit.set /\ ~lastAnalyzedUnit'.set

\* the cursor is now outside the unit whose debounced edit is pending
LeavesEditedUnit ==
    /\ analysisTimeout.armed
    /\ ~Contains(analysisTimeout.range, lastCursorPosition'.position)

\* C23: a cursor movement triggers an immediate unit analysis exactly when
\* the cursor leaves the unit being edited while a debounced edit of that
\* unit is still pending, and the pending timer is then cancelled; a cursor
\* movement when no edit is pending, as after the timer has fired, triggers
\* no analysis.
C23_CursorAwayTrigger ==
    [][CursorMoved =>
          /\ CursorAnalysis <=> LeavesEditedUnit
          /\ CursorAnalysis => ~analysisTimeout'.armed]_vars

\* the half of C23 that fails after the timer has fired: no analysis
\* without a pending edit
NoAnalysisWithoutPendingEdit ==
    [][CursorMoved /\ CursorAnalysis => analysisTimeout.armed]_vars

\* the half that fails before the timer has fired once: leaving the unit
\* with an edit pending triggers the analysis
PendingEditAnalyzedOnLeaving ==
    [][CursorMoved /\ LeavesEditedUnit => CursorAnalysis]_vars


----------------------------------------------------------------------------
(* The extension: a unit pass and the diagnostics of the rest              *)

\* this step is the callback of the timer: analyzeUnit on the range the
\* timer was armed with
TimerPass ==
    /\ analysisTimeout.armed
    /\ ~analysisTimeout'.armed
    /\ lastAnalyzedUnit'.set

\* the unit pass of this step went as far as publishing
UnitPublished ==
    /\ TimerPass
    /\ settings.enabled
    /\ TargetUnit(Catalog[content[analysisTimeout.uri]], analysisTimeout.range).found

\* a diagnostic of the document as a whole, or of a unit other than the one
\* of the range
OfTheRest(uri, range, d) ==
    \/ d.code = "clean-code-assistant.dependency-cycle"
    \/ /\ d.range \in CatalogUnitRanges[content[uri]]
       /\ d.range # range

\* the same for an entry of the violation map
ViolationOfTheRest(uri, range, v) ==
    \/ v.id[3] = "clean-code-assistant.dependency-cycle"
    \/ /\ v.range \in CatalogUnitRanges[content[uri]]
       /\ v.range # range

\* C24: an analyzeUnit pass on a unit U changes only U's diagnostics: every
\* diagnostic published before that belongs to another unit, and every
\* document-level dependency-cycle diagnostic, is still published unchanged
\* after it, and the violation map is updated the same way.
C24_UnitPassKeepsTheRest ==
    [][UnitPublished =>
          LET uri == analysisTimeout.uri
              range == analysisTimeout.range
              Kept(d) == OfTheRest(uri, range, d)
              KeptViolation(v) == ViolationOfTheRest(uri, range, v)
          IN  /\ SelectSeq(srpDiagnostics'[uri], Kept) = SelectSeq(srpDiagnostics[uri], Kept)
              /\ SelectSeq(violationMap'[uri], KeptViolation)
                     = SelectSeq(violationMap[uri], KeptViolation)]_vars

\* the part of C24 about the other units alone
OtherUnitsKept ==
    [][UnitPublished =>
          LET uri == analysisTimeout.uri
              range == analysisTimeout.range
              Kept(d) == d.range \in CatalogUnitRanges[content[uri]] /\ d.range # range
          IN  SelectSeq(srpDiagnostics'[uri], Kept) = SelectSeq(srpDiagnostics[uri], Kept)]_vars


----------------------------------------------------------------------------
(* The extension: after 'Go to Violation'                                  *)

\* the follow-up of the notification of this key is on screen: the same
\* message without 'Go to Violation'
FollowUpShown(uri, key) ==
    \E notification \in BagToSet(notifications) :
        /\ notification.uri = uri
        /\ notification.key = key
        /\ notification.stage = "follow"
        /\ ~notification.goTo

\* C25: when the user chooses 'Go to Violation' on a notification, a
\* follow-up notification with the same message and without 'Go to
\* Violation' is shown, and the key is recorded as notified only after the
\* follow-up has been answered or dismissed; this holds for the notifications
\* of a document pass and for those of a unit pass.
C25_FollowUpAfterGoTo ==
    \A uri \in Uris : \A went \in shown[uri].went :
        /\ FollowUpShown(uri, went.key)
        /\ went.key \notin shown[uri].again => went.key \notin notifiedViolations[uri]

\* the same for the notifications of a document pass alone
FollowUpOfDocumentPass ==
    \A uri \in Uris : \A went \in shown[uri].went :
        went.origin = "document" =>
            /\ FollowUpShown(uri, went.key)
            /\ went.key \notin shown[uri].again => went.key \notin notifiedViolations[uri]

\* a notification of a document pass was answered 'Go to Violation'
DocumentFollowUpPending ==
    \E uri \in Uris : \E went \in shown[uri].went : went.origin = "document"


----------------------------------------------------------------------------
(* The extension: passes that overlap                                      *)

\* the extension is activated with the LLM switched on
InitOverlap ==
    /\ input = MakeDocument(<<>>)
    /\ pc = "extension"
    /\ result = NoResult
    /\ Activated([DefaultSettings EXCEPT !.llm = TRUE])

SpecOverlap == InitOverlap /\ [][Next]_vars

\* pass i of those waiting for the LLM resumes and publishes in this step
Resumes(i) ==
    /\ i \in DOMAIN inflight
    /\ Len(inflight') < Len(inflight)
    /\ inflight' = Resumed(i)

\* C30: when two analyzeDocument passes on a document overlap, or a unit
\* pass runs while a document pass is waiting for the LLM, what is published
\* in the end is the result of the pass that started last, computed from the
\* newest text: a pass never publishes, over the result of a pass that
\* started after it, diagnostics computed from a text that is no longer the
\* text of the document.
C30_LatestPassWins ==
    [][\A i \in 1..MaxInflight :
          Resumes(i) =>
              ~(inflight[i].overtaken /\ inflight[i].content # content[inflight[i].uri])]_vars

====
